---- MODULE Spec2Model ----
(***************************************************************************)
(* A model of the log-parser repository: the SST file lifecycle monitor    *)
(* (db_files.py), the events manager (events_mngr.py), the counters and    *)
(* histograms manager with its CSV extract (stats_mngr.py,                 *)
(* csv_outputter.py), the log tokenizer and the main parsing loop          *)
(* (log_file.py), the column-family registry (cfs_infos.py), the           *)
(* baseline log lookup (baseline_log_files_utils.py), the compaction and   *)
(* db-wide stats managers (stats_mngr.py), the log metadata, the filter,   *)
(* flush and database size calculations (calc_utils.py) and the choice of  *)
(* the output folder (log_parser.py).                                      *)
(*                                                                         *)
(* Every component has its own specification (SpecFiles, SpecEvents, ...)  *)
(* over its own variables; the variables of the other components keep      *)
(* their initial value.                                                    *)
(***************************************************************************)
EXTENDS Integers, Sequences, FiniteSets, TLC

VARIABLES
    monitor,      \* DbFilesMonitor: [files, live_files_stats, cfs_names]
    fm_call,      \* the last event handed to DbFilesMonitor.new_event
    fm_ret,       \* what that call returned (or the exception it raised)
    events_mngr,  \* EventsMngr: [cf_names, preambles, events]
    em_entry,     \* the last entry handed to EventsMngr.try_adding_entry
    em_ret,       \* what that call returned: [result, cf_name, raised]
    em_accepted,  \* history: the valid events stored so far, in arrival order
    em_count,     \* number of entries handed to try_adding_entry so far
    stats_mngr,   \* StatsCountersAndHistogramsMngr
    stats_entry,  \* the last entry handed to add_entry: [time, lines]
    stats_ret,    \* "none", or the exception that add_entry raised
    stats_count,  \* number of entries handed to add_entry so far
    csv_out,      \* what get_counters_csv returned for the present counters
    tok_lines,    \* the lines of the log file read so far
    tok_state,    \* the locals of parse_log_to_entries
    tok_status,   \* "running", "returned", or the exception raised
    rest_entries, \* the tokenized entries of the log being parsed
    parsed_log,   \* ParsedLog: the fields that parse_rest_of_log uses
    rest_status,  \* "no log", "parsing", "done", or the exception raised
    rest_trace,   \* history: one record for every iteration of the loop
    cfs_metadata, \* CfsMetadata: cfs_info, [order, info]
    cfs_entry,    \* the last entry given to try_parse_as_cf_lifetime_entries
    cfs_ret,      \* what the last call returned: [result, .., error]
    cfs_count,    \* number of calls so far; the index and time of an entry
    cfs_dropped,  \* history: the names that were given a drop time
    names_log,    \* ParsedLog: the fields that parse_cf_options uses
    names_blocks, \* history: one record for every CF options block
    default_cf_names, \* the list that is the default of EventsMngr(cf_names)
    parsed_logs,  \* the ParsedLog instances of the process
    baseline_folder, \* the baseline log files, in the order of iterdir()
    baseline_call, \* the last find_closest_baseline_log_file_name call
    compaction_mngr, \* CompactionStatsMngr
    compaction_call, \* the last call of CompactionStatsMngr.add_lines
    meta_entries, \* the entries of the metadata region read so far
    meta,         \* ParsedLog.__init__: [status, metadata, last_time]
    filter_mngr,  \* the counters manager given to calc_filter_stats
    filter_call,  \* the last call of calc_filter_stats: [count, ret]
    flush_events, \* the flush event pairs of a CF, in the order of their start
    flush_call, \* the last call of calc_cf_flushes_stats: [called, stats]
    db_size_call, \* the last calls of get_db_size_bytes_at_start and _at_end
    folder_names, \* the names of the entries of the parent output folder
    folder_call, \* the last call of prepare_output_folder: [count, output_folder]
    dbs_lines, \* the lines of the DB stats entry given to try_adding_entries
    dbs_scan, \* the locals of the loop: [status, line_idx, stats_type, curr_cf_name, cf_names_found]
    dbs_trace \* history: the calls of parse_next_db_stats_entry_lines

filesVars == <<monitor, fm_call, fm_ret>>

eventsVars == <<events_mngr, em_entry, em_ret, em_accepted, em_count>>

statsVars == <<stats_mngr, stats_entry, stats_ret, stats_count, csv_out>>

tokVars == <<tok_lines, tok_state, tok_status>>

restVars == <<rest_entries, parsed_log, rest_status, rest_trace>>

cfsVars == <<cfs_metadata, cfs_entry, cfs_ret, cfs_count, cfs_dropped>>

namesVars == <<names_log, names_blocks>>

instancesVars == <<default_cf_names, parsed_logs>>

firstVars == <<filesVars, eventsVars, statsVars, tokVars, restVars, cfsVars>>

baselineVars == <<baseline_folder, baseline_call>>

compactionVars == <<compaction_mngr, compaction_call>>

metaVars == <<meta_entries, meta>>

moreVars ==
    <<namesVars, instancesVars, baselineVars, compactionVars, metaVars>>

filterVars == <<filter_mngr, filter_call>>

flushesVars == <<flush_events, flush_call>>

dbSizeVars == <<db_size_call>>

folderVars == <<folder_names, folder_call>>

dbStatsVars == <<dbs_lines, dbs_scan, dbs_trace>>

lastVars == <<filterVars, flushesVars, dbSizeVars, folderVars, dbStatsVars>>

vars == <<firstVars, moreVars, lastVars>>

\* What the actions of one component leave alone.
allButFiles == <<eventsVars, statsVars, tokVars, restVars, cfsVars,
    moreVars, lastVars>>
allButEvents == <<filesVars, statsVars, tokVars, restVars, cfsVars,
    moreVars, lastVars>>
allButStats == <<filesVars, eventsVars, tokVars, restVars, cfsVars,
    moreVars, lastVars>>
allButTok == <<filesVars, eventsVars, statsVars, restVars, cfsVars,
    moreVars, lastVars>>
allButRest == <<filesVars, eventsVars, statsVars, tokVars, cfsVars,
    moreVars, lastVars>>
allButCfs == <<filesVars, eventsVars, statsVars, tokVars, restVars,
    moreVars, lastVars>>
allButNames ==
    <<firstVars, instancesVars, baselineVars, compactionVars, metaVars,
      lastVars>>

allButInstances ==
    <<firstVars, namesVars, baselineVars, compactionVars, metaVars,
      lastVars>>

allButBaseline ==
    <<firstVars, namesVars, instancesVars, compactionVars, metaVars,
      lastVars>>

allButCompaction ==
    <<firstVars, namesVars, instancesVars, baselineVars, metaVars,
      lastVars>>

allButMeta ==
    <<firstVars, namesVars, instancesVars, baselineVars, compactionVars,
      lastVars>>

allButFilter == <<firstVars, moreVars, flushesVars, dbSizeVars, folderVars, dbStatsVars>>

allButFlushes == <<firstVars, moreVars, filterVars, dbSizeVars, folderVars, dbStatsVars>>

allButDbSize == <<firstVars, moreVars, filterVars, flushesVars, folderVars, dbStatsVars>>

allButFolder == <<firstVars, moreVars, filterVars, flushesVars, dbSizeVars, dbStatsVars>>

allButDbStats == <<firstVars, moreVars, filterVars, flushesVars, dbSizeVars, folderVars>>

\* Python's None, for optional times and ids (ids and times are >= 0).
None == -1

\* Python's None where the value is otherwise a string (a name).
NoneName == "None"

\* Smallest of a non-empty set of integers.
SetMin(S) == CHOOSE x \in S : \A y \in S : x <= y

\* Largest of a non-empty set of integers.
SetMax(S) == CHOOSE x \in S : \A y \in S : x >= y

(***************************************************************************)
(* db_files.py: DbFileInfo, DbLiveFilesStats, DbFilesMonitor               *)
(***************************************************************************)

\* The file numbers of the events (test_db_files.py: file_number1, file_number2).
FileNumbers == {1234, 5678}

\* Index and filter block sizes of a created file are 0..MaxSize bytes.
MaxSize == 1
Sizes == 0 .. MaxSize

\* The column family of each file (test_db_files.py: cf1, cf2).
FileCf(file_number) == IF file_number = 1234 THEN "cf1" ELSE "cf2"

\* The log times of the events (test_db_files.py: time1, time1_plus_10_sec),
\* as seconds after 2023/01/24-08:54:00.
FileTimes == {40, 50}

\* events.EventType, as far as DbFilesMonitor.new_event distinguishes it.
TABLE_FILE_CREATION == "table_file_creation"
TABLE_FILE_DELETION == "table_file_deletion"
FLUSH_STARTED == "flush_started"

FileEventTypes == {TABLE_FILE_CREATION, TABLE_FILE_DELETION, FLUSH_STARTED}

\* The events new_event is called with: what the accessors of the event
\* return.  Only a creation event carries sizes.
FileEvent(type, file_number, log_time, index_size, filter_size) ==
    [type |-> type, file_number |-> file_number,
     cf_name |-> FileCf(file_number), log_time |-> log_time,
     index_size_bytes |-> index_size, filter_size_bytes |-> filter_size]

FileEvents ==
    {FileEvent(TABLE_FILE_CREATION, n, tm, i, f) :
        n \in FileNumbers, tm \in FileTimes, i \in Sizes, f \in Sizes}
    \cup {FileEvent(t, n, tm, 0, 0) :
        t \in {TABLE_FILE_DELETION, FLUSH_STARTED},
        n \in FileNumbers, tm \in FileTimes}

DbFileInfo(file_number, cf_name, creation_time) ==
    [file_number |-> file_number, cf_name |-> cf_name,
     creation_time |-> creation_time, deletion_time |-> None,
     index_size_bytes |-> 0, filter_size_bytes |-> 0]

is_alive(file_info) == file_info.deletion_time = None

DbLiveFilesStats ==
    [total_live_indexes_sizes_bytes |-> 0,
     total_live_filters_sizes_bytes |-> 0,
     max_total_live_indexes_sizes_bytes |-> 0,
     max_live_indexes_size_time |-> None,
     max_total_live_filters_sizes_bytes |-> 0,
     max_live_filters_size_time |-> None]

DbLiveFilesStats_file_created(stats, file_info) ==
    LET idx == stats.total_live_indexes_sizes_bytes + file_info.index_size_bytes
        flt == stats.total_live_filters_sizes_bytes + file_info.filter_size_bytes
        s1 == [stats EXCEPT !.total_live_indexes_sizes_bytes = idx]
        s2 == IF s1.max_total_live_indexes_sizes_bytes < idx
              THEN [s1 EXCEPT !.max_total_live_indexes_sizes_bytes = idx,
                              !.max_live_indexes_size_time = file_info.creation_time]
              ELSE s1
        s3 == [s2 EXCEPT !.total_live_filters_sizes_bytes = flt]
    IN  IF s3.max_total_live_filters_sizes_bytes < flt
        THEN [s3 EXCEPT !.max_total_live_filters_sizes_bytes = flt,
                        !.max_live_filters_size_time = file_info.creation_time]
        ELSE s3

\* A deletion that forgets the filter bytes.
DbLiveFilesStats_file_deleted_KeepsFilters(stats, file_info) ==
    [ok |-> TRUE,
     stats |-> [stats EXCEPT !.total_live_indexes_sizes_bytes =
                                 @ - file_info.index_size_bytes]]

\* [ok, stats]: ok is FALSE when one of the two assertions fails.
DbLiveFilesStats_file_deleted(stats, file_info) ==
    IF \/ stats.total_live_indexes_sizes_bytes < file_info.index_size_bytes
       \/ stats.total_live_filters_sizes_bytes < file_info.filter_size_bytes
    THEN [ok |-> FALSE, stats |-> stats]
    ELSE [ok |-> TRUE,
          stats |-> [stats EXCEPT !.total_live_indexes_sizes_bytes =
                                      @ - file_info.index_size_bytes,
                                  !.total_live_filters_sizes_bytes =
                                      @ - file_info.filter_size_bytes]]

DbFilesMonitor ==
    [files |-> <<>>, live_files_stats |-> DbLiveFilesStats, cfs_names |-> <<>>]

\* The file table with file_info stored under file_number.
PutFile(files, file_number, file_info) ==
    [n \in DOMAIN files \cup {file_number} |->
        IF n = file_number THEN file_info ELSE files[n]]

SeqContains(seq, x) == \E i \in 1 .. Len(seq) : seq[i] = x

\* A creation that does not look the file number up first.
DbFilesMonitor_file_created_NoLookup(mon, event) ==
    LET file_info ==
            [DbFileInfo(event.file_number, event.cf_name, event.log_time)
                EXCEPT !.index_size_bytes = event.index_size_bytes,
                       !.filter_size_bytes = event.filter_size_bytes]
    IN  [ret |-> "True",
         mon |-> [mon EXCEPT
                    !.files = PutFile(@, event.file_number, file_info),
                    !.live_files_stats =
                        DbLiveFilesStats_file_created(@, file_info),
                    !.cfs_names =
                        IF SeqContains(@, event.cf_name)
                        THEN @ ELSE Append(@, event.cf_name)]]

\* [ret, mon]: ret is "True", "False" or "AssertionError".
DbFilesMonitor_file_created(mon, event) ==
    IF event.file_number \in DOMAIN mon.files
    THEN [ret |-> "False", mon |-> mon]
    ELSE LET file_info ==
                 [DbFileInfo(event.file_number, event.cf_name, event.log_time)
                     EXCEPT !.index_size_bytes = event.index_size_bytes,
                            !.filter_size_bytes = event.filter_size_bytes]
         IN  [ret |-> "True",
              mon |-> [mon EXCEPT
                         !.files = PutFile(@, event.file_number, file_info),
                         !.live_files_stats =
                             DbLiveFilesStats_file_created(@, file_info),
                         !.cfs_names =
                             IF SeqContains(@, event.cf_name)
                             THEN @ ELSE Append(@, event.cf_name)]]

DbFilesMonitor_file_deleted(mon, event) ==
    IF event.file_number \notin DOMAIN mon.files
    THEN [ret |-> "False", mon |-> mon]
    ELSE IF ~is_alive(mon.files[event.file_number])
    THEN [ret |-> "False", mon |-> mon]
    ELSE LET file_info ==
                 [mon.files[event.file_number]
                     EXCEPT !.deletion_time = event.log_time]
             deleted == [mon EXCEPT !.files[event.file_number] = file_info]
             r == DbLiveFilesStats_file_deleted(mon.live_files_stats, file_info)
         IN  IF r.ok
             THEN [ret |-> "True",
                   mon |-> [deleted EXCEPT !.live_files_stats = r.stats]]
             ELSE [ret |-> "AssertionError", mon |-> deleted]

new_event(mon, event) ==
    IF event.type = TABLE_FILE_CREATION
    THEN DbFilesMonitor_file_created(mon, event)
    ELSE IF event.type = TABLE_FILE_DELETION
    THEN DbFilesMonitor_file_deleted(mon, event)
    ELSE [ret |-> "True", mon |-> mon]

get_all_live_files(mon) ==
    {n \in DOMAIN mon.files : is_alive(mon.files[n])}

StartFiles ==
    /\ monitor = DbFilesMonitor
    /\ fm_call = [type |-> "none", file_number |-> 0]
    /\ fm_ret = "none"

\* One call of DbFilesMonitor.new_event; after an exception nothing more is called.
NewEvent ==
    \E event \in FileEvents :
        /\ fm_ret # "AssertionError"
        /\ LET r == new_event(monitor, event)
           IN  /\ monitor' = r.mon
               /\ fm_ret' = r.ret
        /\ fm_call' = [type |-> event.type, file_number |-> event.file_number]
        /\ UNCHANGED allButFiles

NextFiles == NewEvent

(***************************************************************************)
(* events_mngr.py: EventType, Event, EventsMngr                            *)
(***************************************************************************)

NO_COL_FAMILY == "DB_WIDE"

COMPACTION_STARTED == "compaction_started"

\* The entries handed to try_adding_entry are at most MaxEntries.
MaxEntries == 3

\* time_micros of an event is 1..MaxEventTime.
MaxEventTime == 2
EventTimes == 1 .. MaxEventTime

JobIds == {1, 2}

\* The JSON object of an event line: a function of the keys it has. Every
\* event of the log carries time_micros; "event", "job" and "cf_name" may be
\* missing (type, job and cf are given as NoneName, None and NoneName then).
EventJson(type, job, cf_name, time_micros) ==
    LET keys == {"time_micros"}
                \cup (IF type = NoneName THEN {} ELSE {"event"})
                \cup (IF job = None THEN {} ELSE {"job"})
                \cup (IF cf_name = NoneName THEN {} ELSE {"cf_name"})
    IN  [k \in keys |->
            CASE k = "time_micros" -> time_micros
              [] k = "event" -> type
              [] k = "job" -> job
              [] k = "cf_name" -> cf_name]

\* Entries that carry the EVENT_LOG_v1 marker: json_ok says whether
\* json.loads decodes what follows the marker. The events of job 1 come with
\* and without their CF name; one event has no job, one no type, and the JSON
\* of one is cut short.
EventEntries ==
    {[kind |-> "event", json_ok |-> TRUE,
      json |-> EventJson(type, 1, cf_name, time_micros)] :
        type \in {FLUSH_STARTED, COMPACTION_STARTED},
        cf_name \in {"cf1", NoneName},
        time_micros \in EventTimes}
    \cup {[kind |-> "event", json_ok |-> TRUE,
           json |-> EventJson(FLUSH_STARTED, None, "cf1", 1)],
          [kind |-> "event", json_ok |-> TRUE,
           json |-> EventJson(NoneName, 1, "cf1", 1)],
          [kind |-> "event", json_ok |-> FALSE,
           json |-> EventJson(FLUSH_STARTED, 1, "cf1", 1)]}

\* The CF name of the log; the manager knows it in preambles once ParsedLog
\* has registered it.
EventCfNames == {"cf1"}

\* Entries of the shape "[<cf>] [JOB <id>] <rest>".
PreambleEntries ==
    [kind : {"preamble"}, cf_name : EventCfNames, job_id : JobIds,
     rest : {"Compacting ", "Flushing memtable with next log file", "other"}]

\* Every other entry.
OtherEntries == {[kind |-> "other"]}

LogEntries == EventEntries \cup PreambleEntries \cup OtherEntries

is_an_event_entry(log_entry) == log_entry.kind = "event"

\* [found, info]: found is FALSE where the code returns None.
try_parse_event_preamble(log_entry, cf_names) ==
    LET none == [found |-> FALSE, info |-> <<>>]
    IN  IF log_entry.kind # "preamble" THEN none
        ELSE IF ~SeqContains(cf_names, log_entry.cf_name) THEN none
        ELSE IF log_entry.rest = "Compacting "
        THEN [found |-> TRUE,
              info |-> [cf_name |-> log_entry.cf_name,
                        type |-> COMPACTION_STARTED,
                        job_id |-> log_entry.job_id]]
        ELSE IF log_entry.rest = "Flushing memtable with next log file"
        THEN [found |-> TRUE,
              info |-> [cf_name |-> log_entry.cf_name,
                        type |-> FLUSH_STARTED,
                        job_id |-> log_entry.job_id]]
        ELSE none

\* Event.__init__ without the except clause's effect: the details are kept
\* whether or not the JSON decodes.
Event_KeepsUndecoded(log_entry) ==
    [has_details |-> TRUE,
     dict |-> IF "cf_name" \in DOMAIN log_entry.json
              THEN log_entry.json
              ELSE [k \in DOMAIN log_entry.json \cup {"cf_name"} |->
                       IF k = "cf_name" THEN NO_COL_FAMILY
                       ELSE log_entry.json[k]]]

\* Event.__init__: [has_details, dict]; an undecodable JSON leaves no details,
\* a missing cf_name becomes NO_COL_FAMILY.
Event(log_entry) ==
    IF ~log_entry.json_ok
    THEN [has_details |-> FALSE, dict |-> <<>>]
    ELSE [has_details |-> TRUE,
          dict |-> IF "cf_name" \in DOMAIN log_entry.json
                   THEN log_entry.json
                   ELSE [k \in DOMAIN log_entry.json \cup {"cf_name"} |->
                            IF k = "cf_name" THEN NO_COL_FAMILY
                            ELSE log_entry.json[k]]]

does_have_details(event) == event.has_details

\* get_event_data_by_key(key) is not None
has_key(event, key) == does_have_details(event) /\ key \in DOMAIN event.dict

is_valid(event) == does_have_details(event) /\ has_key(event, "event")

get_time(event) == event.dict["time_micros"]

\* Event.__lt__
Event_lt(event, other) == get_time(event) < get_time(other)

\* try_adding_preamble_event without the comparison of the types.
try_adding_preamble_event_AnyType(event, event_preamble_type, cf_name) ==
    [added |-> TRUE, event |-> [event EXCEPT !.dict["cf_name"] = cf_name]]

\* [added, event]
try_adding_preamble_event(event, event_preamble_type, cf_name) ==
    IF event.dict["event"] # event_preamble_type
    THEN [added |-> FALSE, event |-> event]
    ELSE [added |-> TRUE,
          event |-> [event EXCEPT !.dict["cf_name"] = cf_name]]

\* list.sort() with Event.__lt__ reversed.
RECURSIVE list_sort_Descending(_)
list_sort_Descending(list) ==
    IF list = <<>> THEN <<>>
    ELSE LET rest == list_sort_Descending(SubSeq(list, 1, Len(list) - 1))
             last == list[Len(list)]
             before == {i \in 1 .. Len(rest) : ~Event_lt(rest[i], last)}
             n == Cardinality(before)
         IN  SubSeq(rest, 1, n) \o <<last>> \o SubSeq(rest, n + 1, Len(rest))

\* list.sort() of a list of events: a stable sort by Event.__lt__.
RECURSIVE list_sort(_)
list_sort(list) ==
    IF list = <<>> THEN <<>>
    ELSE LET rest == list_sort(SubSeq(list, 1, Len(list) - 1))
             last == list[Len(list)]
             \* the sorted elements that stay before the last one
             before == {i \in 1 .. Len(rest) : ~Event_lt(last, rest[i])}
             n == Cardinality(before)
         IN  SubSeq(rest, 1, n) \o <<last>> \o SubSeq(rest, n + 1, Len(rest))

\* A dict of lists keeps its keys in insertion order: [order, lists].
EmptyDict == [order |-> <<>>, lists |-> <<>>]

\* dict[key].append(x), after dict[key] = [] when the key is new.
DictAppend(dict, key, x) ==
    IF key \in DOMAIN dict.lists
    THEN [dict EXCEPT !.lists[key] = Append(@, x)]
    ELSE [order |-> Append(dict.order, key),
          lists |-> [k \in DOMAIN dict.lists \cup {key} |->
                        IF k = key THEN <<x>> ELSE dict.lists[k]]]

RECURSIVE Concat(_, _)
\* The lists of a dict, one after the other in the order of its keys.
Concat(dict, keys) ==
    IF keys = <<>> THEN <<>>
    ELSE dict.lists[Head(keys)] \o Concat(dict, Tail(keys))

EventsMngr == [cf_names |-> <<>>, preambles |-> <<>>, events |-> <<>>]

\* [matched, mngr, raised]
try_parsing_as_preamble(mngr, entry) ==
    LET p == try_parse_event_preamble(entry, mngr.cf_names)
        value == <<p.info.type, p.info.cf_name>>
        job_id == p.info.job_id
    IN  IF ~p.found
        THEN [matched |-> FALSE, mngr |-> mngr, raised |-> "none"]
        ELSE IF job_id \in DOMAIN mngr.preambles
                /\ mngr.preambles[job_id] # value
        THEN [matched |-> FALSE, mngr |-> mngr, raised |-> "AssertionError"]
        ELSE [matched |-> TRUE,
              mngr |-> [mngr EXCEPT !.preambles =
                          [j \in DOMAIN @ \cup {job_id} |->
                              IF j = job_id THEN value ELSE @[j]]],
              raised |-> "none"]

\* The events of the manager with the event stored under its CF and type.
StoreEvent(events, event) ==
    LET cf == event.dict["cf_name"]
        cf_events == IF cf \in DOMAIN events THEN events[cf] ELSE EmptyDict
    IN  [c \in DOMAIN events \cup {cf} |->
            IF c = cf THEN DictAppend(cf_events, event.dict["event"], event)
            ELSE events[c]]

\* [result, cf_name, raised, mngr, stored]: (result, cf_name) is what the call
\* returns, stored the events it has appended.
try_adding_entry(mngr, entry) ==
    LET pre == try_parsing_as_preamble(mngr, entry)
        event == Event(entry)
        job_known == has_key(event, "job")
                     /\ event.dict["job"] \in DOMAIN mngr.preambles
        preamble_info == mngr.preambles[event.dict["job"]]
        combined == IF job_known
                    THEN try_adding_preamble_event(event, preamble_info[1],
                                                   preamble_info[2])
                    ELSE [added |-> FALSE, event |-> event]
        preambles == IF combined.added
                     THEN [j \in DOMAIN mngr.preambles \ {event.dict["job"]} |->
                              mngr.preambles[j]]
                     ELSE mngr.preambles
        event_cf_name == combined.event.dict["cf_name"]
    IN  IF pre.raised # "none"
        THEN [result |-> FALSE, cf_name |-> NoneName, raised |-> pre.raised,
              mngr |-> mngr, stored |-> <<>>]
        ELSE IF pre.matched
        THEN [result |-> TRUE, cf_name |-> NoneName, raised |-> "none",
              mngr |-> pre.mngr, stored |-> <<>>]
        ELSE IF ~is_an_event_entry(entry)
        THEN [result |-> FALSE, cf_name |-> NoneName, raised |-> "none",
              mngr |-> mngr, stored |-> <<>>]
        ELSE IF ~is_valid(event)
        THEN [result |-> TRUE, cf_name |-> NoneName, raised |-> "none",
              mngr |-> mngr, stored |-> <<>>]
        ELSE [result |-> TRUE,
              cf_name |-> IF event_cf_name = NO_COL_FAMILY
                          THEN NoneName ELSE event_cf_name,
              raised |-> "none",
              mngr |-> [mngr EXCEPT
                          !.preambles = preambles,
                          !.events = StoreEvent(@, combined.event)],
              stored |-> <<combined.event>>]

add_cf_name(mngr, cf_name) ==
    IF SeqContains(mngr.cf_names, cf_name) THEN mngr
    ELSE [mngr EXCEPT !.cf_names = Append(@, cf_name)]

\* What get_cf_events returns.
get_cf_events(mngr, cf_name) ==
    IF cf_name \notin DOMAIN mngr.events THEN <<>>
    ELSE list_sort(Concat(mngr.events[cf_name], mngr.events[cf_name].order))

\* [events, mngr]: what get_cf_events_by_type returns and the manager after
\* the call, which sorts the stored list in place.
get_cf_events_by_type(mngr, cf_name, event_type) ==
    IF cf_name \notin DOMAIN mngr.events
    THEN [events |-> <<>>, mngr |-> mngr]
    ELSE IF event_type \notin DOMAIN mngr.events[cf_name].lists
    THEN [events |-> <<>>, mngr |-> mngr]
    ELSE LET sorted == list_sort(mngr.events[cf_name].lists[event_type])
         IN  [events |-> sorted,
              mngr |-> [mngr EXCEPT
                          !.events[cf_name].lists[event_type] = sorted]]

StartEvents ==
    /\ events_mngr = EventsMngr
    /\ em_entry = [kind |-> "none"]
    /\ em_ret = [result |-> FALSE, cf_name |-> NoneName, raised |-> "none"]
    /\ em_accepted = <<>>
    /\ em_count = 0

\* ParsedLog.update_my_entities_on_new_cf: a CF name of the log becomes known.
AddCfName ==
    \E cf_name \in EventCfNames :
        /\ em_ret.raised = "none"
        /\ events_mngr' = add_cf_name(events_mngr, cf_name)
        /\ UNCHANGED <<em_entry, em_ret, em_accepted, em_count>>
        /\ UNCHANGED allButEvents

\* One call of EventsMngr.try_adding_entry.
TryAddingEntry ==
    \E entry \in LogEntries :
        /\ em_ret.raised = "none"
        /\ em_count < MaxEntries
        /\ em_count' = em_count + 1
        /\ em_entry' = entry
        /\ LET r == try_adding_entry(events_mngr, entry)
           IN  /\ events_mngr' = r.mngr
               /\ em_ret' = [result |-> r.result, cf_name |-> r.cf_name,
                             raised |-> r.raised]
               /\ em_accepted' = em_accepted \o r.stored
        /\ UNCHANGED allButEvents

\* One call of EventsMngr.get_cf_events_by_type.
GetCfEventsByType ==
    \E cf_name \in EventCfNames \cup {NO_COL_FAMILY},
       event_type \in {FLUSH_STARTED, COMPACTION_STARTED} :
        /\ em_ret.raised = "none"
        /\ events_mngr' =
               get_cf_events_by_type(events_mngr, cf_name, event_type).mngr
        /\ UNCHANGED <<em_entry, em_ret, em_accepted, em_count>>
        /\ UNCHANGED allButEvents

NextEvents == AddCfName \/ TryAddingEntry \/ GetCfEventsByType

(***************************************************************************)
(* stats_mngr.py: StatsCountersAndHistogramsMngr; csv_outputter.py         *)
(***************************************************************************)

CounterNames == {"counter1", "counter2"}

HistogramNames == {"histogram1"}

\* Largest counter value, histogram count and histogram sum of a line.
MaxValue == 1

Values == 0 .. MaxValue

\* An entry's time is a timestamp with a sub-second part: a number of
\* ticks, TicksPerSec of them to one second.
TicksPerSec == 2

\* Largest timestamp (in ticks) of a statistics entry.
MaxTick == 2

StatsTimes == 0 .. MaxTick

\* The number of add_entry calls of a run of SpecStats / of SpecCsv.
MaxStatsEntries == 3

MaxCsvEntries == 2

\* The seconds of a timestamp: the fraction is parsed and dropped.
get_gmt_timestamp(time) == time \div TicksPerSec

compare_times(time1, time2) ==
    LET diff == get_gmt_timestamp(time1) - get_gmt_timestamp(time2)
    IN  IF diff < 0 THEN -1 ELSE IF diff > 0 THEN 1 ELSE 0

\* The lines of an entry after its first, by what the two regular
\* expressions find in them: "<name> COUNT : <value>",
\* "<name> P50 : .. COUNT : <count> SUM : <total>", or neither.
CounterLine(name, value) ==
    [kind |-> "counter", name |-> name, value |-> value,
     count |-> 0, total |-> 0]

HistogramLine(name, count, total) ==
    [kind |-> "histogram", name |-> name, value |-> 0,
     count |-> count, total |-> total]

BadLine ==
    [kind |-> "other", name |-> "", value |-> 0, count |-> 0, total |-> 0]

CounterLines == {CounterLine(n, v) : n \in CounterNames, v \in Values}

HistogramLines ==
    {HistogramLine(n, c, t) : n \in HistogramNames, c \in Values, t \in Values}

\* dict[key] = list() for a new key.
DictCreate(dict, key) ==
    [order |-> Append(dict.order, key),
     lists |-> [k \in DOMAIN dict.lists \cup {key} |->
                   IF k = key THEN <<>> ELSE dict.lists[k]]]

StatsCountersAndHistogramsMngr ==
    [counters_names |-> <<>>, counters |-> EmptyDict,
     histogram_counters_names |-> <<>>, histograms |-> EmptyDict]

\* try_parse_counter_line without the comparison with the previous value.
try_parse_counter_line_KeepsRegression(mngr, time, line) ==
    IF line.kind # "counter"
    THEN [matched |-> FALSE, mngr |-> mngr]
    ELSE [matched |-> TRUE,
          mngr |-> [mngr EXCEPT
              !.counters_names =
                  IF line.name \in DOMAIN mngr.counters.lists
                  THEN @ ELSE Append(@, line.name),
              !.counters = DictAppend(@, line.name,
                  [time |-> time, value |-> line.value])]]

\* [matched, mngr]
try_parse_counter_line(mngr, time, line) ==
    IF line.kind # "counter"
    THEN [matched |-> FALSE, mngr |-> mngr]
    ELSE
    LET value == line.value
        counter_name == line.name
        known == counter_name \in DOMAIN mngr.counters.lists
        mngr1 == IF known THEN mngr
                 ELSE [mngr EXCEPT
                          !.counters_names = Append(@, counter_name),
                          !.counters = DictCreate(@, counter_name)]
        entries == mngr1.counters.lists[counter_name]
    IN  IF entries # <<>> /\ value < entries[Len(entries)].value
        THEN [matched |-> TRUE, mngr |-> mngr1]
        ELSE [matched |-> TRUE,
              mngr |-> [mngr1 EXCEPT !.counters.lists[counter_name] =
                           Append(@, [time |-> time, value |-> value])]]

\* float(f"{(total / count):.2f}"), in hundredths: the quotient rounded to
\* the nearest hundredth (count > 0).
Average(total, count) ==
    LET q == (total * 100) \div count
        r == (total * 100) % count
    IN  IF 2 * r > count \/ (2 * r = count /\ q % 2 = 1) THEN q + 1 ELSE q

\* try_parse_histogram_line with the deltas taken from the first stored
\* entry of the name (entries[0]) instead of the last one (entries[-1]).
try_parse_histogram_line_DeltaFromFirst(mngr, time, line) ==
    IF line.kind # "histogram"
    THEN [matched |-> FALSE, mngr |-> mngr, raised |-> "none"]
    ELSE
    LET counter_name == line.name
        count == line.count
        total == line.total
        known == counter_name \in DOMAIN mngr.histograms.lists
        mngr1 == IF known THEN mngr
                 ELSE [mngr EXCEPT
                          !.histograms = DictCreate(@, counter_name),
                          !.histogram_counters_names =
                              Append(@, counter_name)]
        entries == mngr1.histograms.lists[counter_name]
        prev_count == IF entries = <<>> THEN 0
                      ELSE entries[Len(entries)].Count
        prev_total == IF entries = <<>> THEN 0
                      ELSE entries[Len(entries)].Sum
        first_count == IF entries = <<>> THEN 0 ELSE entries[1].Count
        first_total == IF entries = <<>> THEN 0 ELSE entries[1].Sum
    IN  IF total > 0 /\ count = 0
        THEN [matched |-> FALSE, mngr |-> mngr1,
              raised |-> "ZeroDivisionError"]
        ELSE IF entries # <<>> /\ (count < prev_count \/ total < prev_total)
        THEN [matched |-> TRUE, mngr |-> mngr1, raised |-> "none"]
        ELSE [matched |-> TRUE, raised |-> "none",
              mngr |-> [mngr1 EXCEPT !.histograms.lists[counter_name] =
                  Append(@, [time |-> time,
                             Count |-> count,
                             Sum |-> total,
                             Average |-> IF total > 0
                                         THEN Average(total, count) ELSE 0,
                             IntervalCount |-> count - first_count,
                             IntervalSum |-> total - first_total])]]

\* [matched, mngr, raised]
try_parse_histogram_line(mngr, time, line) ==
    IF line.kind # "histogram"
    THEN [matched |-> FALSE, mngr |-> mngr, raised |-> "none"]
    ELSE
    LET counter_name == line.name
        count == line.count
        total == line.total
        known == counter_name \in DOMAIN mngr.histograms.lists
        mngr1 == IF known THEN mngr
                 ELSE [mngr EXCEPT
                          !.histograms = DictCreate(@, counter_name),
                          !.histogram_counters_names =
                              Append(@, counter_name)]
        entries == mngr1.histograms.lists[counter_name]
        prev_count == IF entries = <<>> THEN 0
                      ELSE entries[Len(entries)].Count
        prev_total == IF entries = <<>> THEN 0
                      ELSE entries[Len(entries)].Sum
    IN  IF total > 0 /\ count = 0
        THEN \* total / count
             [matched |-> FALSE, mngr |-> mngr1,
              raised |-> "ZeroDivisionError"]
        ELSE IF entries # <<>> /\ (count < prev_count \/ total < prev_total)
        THEN [matched |-> TRUE, mngr |-> mngr1, raised |-> "none"]
        ELSE [matched |-> TRUE, raised |-> "none",
              mngr |-> [mngr1 EXCEPT !.histograms.lists[counter_name] =
                  Append(@, [time |-> time,
                             Count |-> count,
                             Sum |-> total,
                             Average |-> IF total > 0
                                         THEN Average(total, count) ELSE 0,
                             IntervalCount |-> count - prev_count,
                             IntervalSum |-> total - prev_total])]]

RECURSIVE add_entry(_, _, _)
\* The loop of add_entry over the lines after the first: [mngr, raised].
\* A line that is neither a counter nor a histogram is logged and skipped.
add_entry(mngr, time, lines) ==
    IF lines = <<>> THEN [mngr |-> mngr, raised |-> "none"]
    ELSE LET c == try_parse_counter_line(mngr, time, Head(lines))
             h == try_parse_histogram_line(mngr, time, Head(lines))
         IN  IF c.matched THEN add_entry(c.mngr, time, Tail(lines))
             ELSE IF h.raised # "none"
             THEN [mngr |-> h.mngr, raised |-> h.raised]
             ELSE add_entry(h.mngr, time, Tail(lines))

get_counter_entries(mngr, counter_name) ==
    IF counter_name \notin DOMAIN mngr.counters.lists THEN <<>>
    ELSE mngr.counters.lists[counter_name]

are_all_counter_entries_zero(mngr, counter_name) ==
    \A i \in DOMAIN get_counter_entries(mngr, counter_name) :
        ~(get_counter_entries(mngr, counter_name)[i].value > 0)

get_last_counter_value(mngr, counter_name) ==
    LET entries == get_counter_entries(mngr, counter_name)
    IN  IF entries = <<>> THEN 0 ELSE entries[Len(entries)].value

RECURSIVE SortedSeq(_)
\* The elements of a set of timestamps, as a list in ascending order.
SortedSeq(S) ==
    IF S = {} THEN <<>> ELSE <<SetMin(S)>> \o SortedSeq(S \ {SetMin(S)})

get_counters_times(mngr) ==
    SortedSeq(UNION {{mngr.counters.lists[n][i].time :
                         i \in DOMAIN mngr.counters.lists[n]} :
                     n \in DOMAIN mngr.counters.lists})

RECURSIVE get_counters_entries_not_all_zeroes(_, _)
\* The names (in the order of the dict) of the counters with a value > 0.
get_counters_entries_not_all_zeroes(mngr, names) ==
    IF names = <<>> THEN <<>>
    ELSE (IF are_all_counter_entries_zero(mngr, Head(names))
          THEN <<>> ELSE <<Head(names)>>)
         \o get_counters_entries_not_all_zeroes(mngr, Tail(names))

RECURSIVE csv_line(_, _, _, _, _)
\* One row of the counters CSV, the loop over the counters for one time:
\* [ok, counters_idx, csv_line]; ok is FALSE when the assertion fails.
csv_line(mngr, names, time, counters_idx, values) ==
    IF names = <<>>
    THEN [ok |-> TRUE, counters_idx |-> counters_idx, csv_line |-> values]
    ELSE
    LET counter_name == Head(names)
        counter_entries == mngr.counters.lists[counter_name]
        idx == counters_idx[counter_name]
        counter_entry == counter_entries[idx + 1]
        time_diff == compare_times(counter_entry.time, time)
    IN  IF ~(idx < Len(counter_entries))
        THEN csv_line(mngr, Tail(names), time, counters_idx,
                      Append(values, 0))
        ELSE IF ~(time_diff >= 0)
        THEN [ok |-> FALSE, counters_idx |-> counters_idx,
              csv_line |-> values]
        ELSE IF time_diff = 0
        THEN csv_line(mngr, Tail(names), time,
                      [counters_idx EXCEPT ![counter_name] = @ + 1],
                      Append(values, counter_entry.value))
        ELSE csv_line(mngr, Tail(names), time, counters_idx,
                      Append(values, 0))

RECURSIVE csv_rows(_, _, _, _, _)
\* The loop over the times: [kind, header, rows].
csv_rows(mngr, names, times, counters_idx, rows) ==
    IF times = <<>>
    THEN [kind |-> "csv", header |-> names, rows |-> rows]
    ELSE LET l == csv_line(mngr, names, Head(times), counters_idx, <<>>)
         IN  IF ~l.ok
             THEN [kind |-> "AssertionError", header |-> names,
                   rows |-> rows]
             ELSE csv_rows(mngr, names, Tail(times), l.counters_idx,
                           Append(rows, [time |-> Head(times),
                                         values |-> l.csv_line]))

get_counters_csv(mngr) ==
    LET counters_names ==
            get_counters_entries_not_all_zeroes(mngr, mngr.counters.order)
    IN  IF counters_names = <<>>
        THEN [kind |-> "None", header |-> <<>>, rows |-> <<>>]
        ELSE csv_rows(mngr, counters_names, get_counters_times(mngr),
                      [n \in DOMAIN mngr.counters.lists |-> 0], <<>>)

\* The lines (after the first) of the entries given to add_entry in
\* SpecStats: one line, or two lines of different kinds.
StatsEntryLines ==
    LET counter_lines == {CounterLine("counter1", v) : v \in Values}
    IN  {<<l>> : l \in counter_lines \cup HistogramLines \cup {BadLine}}
        \cup {<<c, h>> : c \in counter_lines, h \in HistogramLines}
        \cup {<<BadLine, c>> : c \in counter_lines}

\* The lines of the entries given to add_entry in SpecCsv: at most one
\* line for each counter, in the order of the names.
CsvEntryLines ==
    {<<c>> : c \in CounterLines}
    \cup {<<CounterLine("counter1", v), CounterLine("counter2", w)>> :
             v \in Values, w \in Values}

CsvNotRun == [kind |-> "not run", header |-> <<>>, rows |-> <<>>]

StartStats ==
    /\ stats_mngr = StatsCountersAndHistogramsMngr
    /\ stats_entry = [time |-> 0, lines |-> <<>>]
    /\ stats_ret = "none"
    /\ stats_count = 0
    /\ csv_out = CsvNotRun

\* One call of add_entry, with the entries of a log in the order of
\* their times.
AddStatsEntry ==
    \E lines \in StatsEntryLines :
        /\ stats_ret = "none"
        /\ stats_count < MaxStatsEntries
        /\ stats_count' = stats_count + 1
        /\ stats_entry' = [time |-> stats_count, lines |-> lines]
        /\ LET r == add_entry(stats_mngr, stats_count, lines)
           IN  /\ stats_mngr' = r.mngr
               /\ stats_ret' = r.raised
        /\ UNCHANGED csv_out
        /\ UNCHANGED allButStats

NextStats == AddStatsEntry

\* One call of add_entry with an entry of counters of any time.
AddCounterEntry ==
    \E time \in StatsTimes, lines \in CsvEntryLines :
        /\ stats_count < MaxCsvEntries
        /\ stats_count' = stats_count + 1
        /\ stats_entry' = [time |-> time, lines |-> lines]
        /\ LET r == add_entry(stats_mngr, time, lines)
           IN  /\ stats_mngr' = r.mngr
               /\ stats_ret' = r.raised
        /\ csv_out' = CsvNotRun
        /\ UNCHANGED allButStats

\* One call of csv_outputter.get_counters_csv on the manager.
GetCountersCsv ==
    /\ csv_out' = get_counters_csv(stats_mngr)
    /\ UNCHANGED <<stats_mngr, stats_entry, stats_ret, stats_count>>
    /\ UNCHANGED allButStats

NextCsv == AddCounterEntry \/ GetCountersCsv

(***************************************************************************)
(* stats_mngr.py: CompactionStatsMngr                                      *)
(*                                                                         *)
(* A block of compaction stats is modelled by the CF of its start line,    *)
(* by its form (what parse_level_lines finds in it) and by the size of its *)
(* Sum line; the entry stored for it is the dict with the key "SUM".       *)
(***************************************************************************)

\* The number of calls of CompactionStatsMngr.add_lines.
MaxAddLines == 3

CompactionCfNames == {"default", "cf1"}

\* The times of the stats dumps.
DumpTimes == {1, 2}

BlockForms ==
    {"level",              \* header, separator, level lines and a Sum line
     "level_no_sum",       \* the same without a Sum line
     "level_bad_files",    \* a line whose Files field is not <n>/<m>
     "level_unknown_line", \* a line that is none of L<n>, Sum, Int, User
     "level_bad_separator",\* the line under the header is not all "-"
     "priority",           \* the table by priority
     "other"}              \* the second line starts with something else

CompactionBlocks ==
    [start_cf : CompactionCfNames, form : BlockForms, size_bytes : {1, 2}]

CompactionStatsMngr == [level_entries |-> [order |-> <<>>, info |-> <<>>]]

\* new_entry of parse_level_lines
NewLevelEntry(block) == [SUM |-> [size_bytes |-> block.size_bytes]]

\* self.level_entries[time] = value, level_entries being a dict.
SetTimeEntries(level_entries, time, value) ==
    [order |-> IF time \in DOMAIN level_entries.info THEN level_entries.order
               ELSE Append(level_entries.order, time),
     info |-> [t \in DOMAIN level_entries.info \cup {time} |->
                  IF t = time THEN value ELSE level_entries.info[t]]]

\* [mngr, raised]
parse_level_lines(mngr, time, cf_name, block) ==
    CASE block.form = "level_bad_separator" ->
             [mngr |-> mngr, raised |-> "none"]
      [] block.form = "level_unknown_line" ->
             [mngr |-> mngr, raised |-> "none"]
      [] block.form = "level_bad_files" ->
             [mngr |-> mngr, raised |-> "TypeError"]
      [] block.form = "level_no_sum" ->
             [mngr |-> mngr, raised |-> "AssertionError"]
      [] block.form = "level" ->
             \* self.level_entries[time] = {cf_name: new_entry}
             [mngr |-> [mngr EXCEPT !.level_entries =
                          SetTimeEntries(@, time,
                              [c \in {cf_name} |-> NewLevelEntry(block)])],
              raised |-> "none"]

\* [mngr, raised]
CompactionStatsMngr_add_lines(mngr, time, cf_name, block) ==
    IF cf_name # block.start_cf
    THEN [mngr |-> mngr, raised |-> "AssertionError"]
    ELSE IF block.form = "priority"
    THEN [mngr |-> mngr, raised |-> "none"]
    ELSE IF block.form = "other"
    THEN [mngr |-> mngr, raised |-> "AssertionError"]
    ELSE parse_level_lines(mngr, time, cf_name, block)

RECURSIVE get_cf_level_entries(_, _, _)
\* The list of {time: entry} of the CF, over the times from the k-th on in
\* the order of the dict.
get_cf_level_entries(mngr, cf_name, k) ==
    IF k > Len(mngr.level_entries.order) THEN <<>>
    ELSE LET time == mngr.level_entries.order[k]
             time_entries == mngr.level_entries.info[time]
             rest == get_cf_level_entries(mngr, cf_name, k + 1)
         IN  IF cf_name \in DOMAIN time_entries
             THEN <<[time |-> time, entry |-> time_entries[cf_name]]>>
                  \o rest
             ELSE rest

NoCompactionCall == [count |-> 0, raised |-> "none"]

StartCompaction ==
    /\ compaction_mngr = CompactionStatsMngr
    /\ compaction_call = NoCompactionCall

\* One call of CompactionStatsMngr.add_lines; the dumps come in the order
\* of their times.
AddCompactionLines ==
    /\ compaction_call.raised = "none"
    /\ compaction_call.count < MaxAddLines
    /\ \E time \in DumpTimes, cf_name \in CompactionCfNames,
          block \in CompactionBlocks :
           /\ \A t \in DOMAIN compaction_mngr.level_entries.info : t <= time
           /\ LET r == CompactionStatsMngr_add_lines(compaction_mngr, time,
                                                     cf_name, block)
              IN  /\ compaction_mngr' = r.mngr
                  /\ compaction_call' =
                         [count |-> compaction_call.count + 1,
                          raised |-> r.raised, time |-> time,
                          cf_name |-> cf_name, block |-> block]
    /\ UNCHANGED allButCompaction

NextCompaction == AddCompactionLines
(***************************************************************************)
(* log_file.py: ParsedLog.parse_log_to_entries (the tokenizer)             *)
(*                                                                         *)
(* LogEntry (log_entry.py) is not part of the sources at hand.  A line is  *)
(* modelled by what LogEntry does with it: it is an entry start or not,    *)
(* and building the entry from it succeeds or raises a ParsingError.       *)
(***************************************************************************)

\* The number of lines of a log file.
MaxLines == 6

\* "empty" is a line with nothing but its line end.
LineKinds == {"start", "start_raises", "line", "line_raises", "empty"}

is_entry_start(line) == line \in {"start", "start_raises"}

\* An entry under construction: where it starts and how many lines it has.
LogEntry(line_idx, line) == [start_line_idx |-> line_idx, num_lines |-> 1]

add_line(new_entry, line) == [new_entry EXCEPT !.num_lines = @ + 1]

\* new_entry = None
NoEntry == [start_line_idx |-> None, num_lines |-> 0]

\* The locals of parse_log_to_entries before its loop.
TokStart ==
    [log_entries |-> <<>>, new_entry |-> NoEntry,
     skip_until_next_entry_start |-> FALSE, raised |-> "none"]

\* The handler without its first and its last statement: the entry is
\* discarded and skip_until_next_entry_start is left as it is.
ParsingErrorHandler_DiscardsOnly(tok) == [tok EXCEPT !.new_entry = NoEntry]

\* except ParsingError as e: logging.error(str(e.value)) comes first, and
\* a ParsingError has the attributes msg and context only: the handler
\* raises an AttributeError before it discards the entry.
ParsingErrorHandler(tok) == [tok EXCEPT !.raised = "AttributeError"]

\* One iteration of the loop over the lines.
parse_log_to_entries_line(tok, line_idx, line) ==
    IF is_entry_start(line)
    THEN LET tok1 == [tok EXCEPT
                 !.skip_until_next_entry_start = FALSE,
                 !.log_entries = IF tok.new_entry # NoEntry
                                 THEN Append(@, tok.new_entry) ELSE @]
         IN  IF line = "start_raises"
             THEN ParsingErrorHandler(tok1)
             ELSE [tok1 EXCEPT !.new_entry = LogEntry(line_idx, line)]
    ELSE IF tok.new_entry # NoEntry
    THEN IF line = "line_raises"
         THEN ParsingErrorHandler(tok)
         ELSE [tok EXCEPT !.new_entry = add_line(@, line)]
    ELSE IF ~tok.skip_until_next_entry_start
    THEN \* ParsingAssertion(msg, log_file_path, line_idx): one argument
         \* more than its constructor takes
         [tok EXCEPT !.raised = "TypeError"]
    ELSE tok

\* After the loop: the last entry of the file.
parse_log_to_entries_end(tok) ==
    IF tok.new_entry # NoEntry
    THEN [tok EXCEPT !.log_entries = Append(@, tok.new_entry)]
    ELSE tok

StartTok ==
    /\ tok_lines = <<>>
    /\ tok_state = TokStart
    /\ tok_status = "running"

\* The next line of the file goes through the loop; the first line of a
\* file must be the start of an entry.
TokLine ==
    \E line \in LineKinds :
        /\ tok_status = "running"
        /\ Len(tok_lines) < MaxLines
        /\ tok_lines' = Append(tok_lines, line)
        /\ IF tok_lines = <<>> /\ ~is_entry_start(line)
           THEN /\ tok_status' = "InvalidLogFile"
                /\ UNCHANGED tok_state
           ELSE LET r == parse_log_to_entries_line(tok_state, Len(tok_lines), line)
                IN  /\ tok_state' = r
                    /\ tok_status' = IF r.raised = "none" THEN "running"
                                     ELSE r.raised
        /\ UNCHANGED allButTok

\* The end of the file: the entries are returned.
TokEnd ==
    /\ tok_status = "running"
    /\ IF tok_lines = <<>>
       THEN /\ tok_status' = "EmptyLogFile"
            /\ UNCHANGED tok_state
       ELSE /\ tok_state' = parse_log_to_entries_end(tok_state)
            /\ tok_status' = "returned"
    /\ UNCHANGED tok_lines
    /\ UNCHANGED allButTok

NextTok == TokLine \/ TokEnd

(***************************************************************************)
(* log_file.py: ParsedLog.parse_rest_of_log with its sub-parsers, and      *)
(* stats_mngr.py: StatsMngr.try_adding_entries                             *)
(*                                                                         *)
(* A tokenized entry is modelled by its kind: what the sub-parsers find    *)
(* in its first line.  LogFileOptionsParser and WarningsMngr are not       *)
(* part of the sources at hand and are modelled by their contracts: an     *)
(* options block extends over the run of option entries, and a warning     *)
(* entry is added by WarningsMngr.try_adding_entry.  What the managers     *)
(* store for an entry is the subject of their own specifications; here an  *)
(* entry kind tells what the call returns or raises.                       *)
(***************************************************************************)

\* The number of entries of a log after its first entries (RestPrefixes).
MaxRestEntries == 3

EntryKinds ==
    {"cf_lifetime",            \* a Created / Recovered / Dropped CF line
     "options",                \* "Options.<name> : <value>"
     "support_info",           \* "Compression algorithms supported:"
     "cf_options_start",       \* "--- Options for column family [cf1]:"
     "warning",                \* a [WARN] / [ERROR] entry
     "event",                  \* an EVENT_LOG_v1 entry or an event preamble
     "preamble_conflict",      \* a preamble that contradicts a stored one
     "dump_stats",             \* "------- DUMPING STATS -------"
     "db_stats",               \* "** DB Stats **" and the stats tables
     "statistics",             \* "STATISTICS:" and its counter lines
     "statistics_zero_count",  \* the same, a histogram with SUM > COUNT = 0
     "other"}

\* The first entries of the logs: nothing, or the options of the database
\* with or without the line that ends them.
RestPrefixes ==
    {<<>>, <<"other">>, <<"options">>, <<"options", "support_info">>,
     <<"other", "options", "options", "support_info">>}

RECURSIVE SeqsUpTo(_, _)
\* The sequences of at most n elements of S.
SeqsUpTo(S, n) ==
    IF n = 0 THEN {<<>>}
    ELSE LET shorter == SeqsUpTo(S, n - 1)
         IN  shorter \cup {Append(s, x) : s \in shorter, x \in S}

RestLogs ==
    {p \o t : p \in RestPrefixes, t \in SeqsUpTo(EntryKinds, MaxRestEntries)}
    \ {<<>>}

\* log_entries[entry_idx], with the indices of the code (from 0).
get_entry(log_entries, entry_idx) == log_entries[entry_idx + 1]

is_options_entry(entry) == entry = "options"

is_cf_options_start_entry(entry) == entry = "cf_options_start"

is_dump_stats_start(entry) == entry = "dump_stats"

is_your_entry(entry) == entry \in {"statistics", "statistics_zero_count"}

RECURSIVE find_next_options_entry(_, _)
\* The index of the first options entry from start_entry_idx on, or the
\* number of entries.
find_next_options_entry(log_entries, start_entry_idx) ==
    IF start_entry_idx < Len(log_entries)
       /\ ~is_options_entry(get_entry(log_entries, start_entry_idx))
    THEN find_next_options_entry(log_entries, start_entry_idx + 1)
    ELSE start_entry_idx

RECURSIVE find_support_info_start_index(_, _)
\* The index of the first support-info entry from start_entry_idx on; None
\* stands for the ParsingError raised when there is none.
find_support_info_start_index(log_entries, start_entry_idx) ==
    IF ~(start_entry_idx < Len(log_entries)) THEN None
    ELSE IF get_entry(log_entries, start_entry_idx) = "support_info"
    THEN start_entry_idx
    ELSE find_support_info_start_index(log_entries, start_entry_idx + 1)

RECURSIVE SkipOptions(_, _)
\* The index after the run of options entries that starts at entry_idx.
SkipOptions(log_entries, entry_idx) ==
    IF entry_idx < Len(log_entries)
       /\ is_options_entry(get_entry(log_entries, entry_idx))
    THEN SkipOptions(log_entries, entry_idx + 1)
    ELSE entry_idx

\* ParsedLog after parse_metadata and set_end_time (the metadata is taken
\* to be valid): the fields that the loop of parse_rest_of_log reads and
\* writes.
ParsedLog(log_entries) ==
    [entry_idx |-> find_next_options_entry(log_entries, 0),
     db_wide_options_set |-> FALSE,
     cfs_names |-> <<>>,
     next_unknown_cf_name_suffix |-> None,
     not_parsed_entries |-> <<>>,
     raised |-> "none"]

\* [is_auto_generated, cf_name, suffix]
generate_next_unknown_cf_name(log) ==
    IF log.next_unknown_cf_name_suffix = None
    THEN [is_auto_generated |-> FALSE, cf_name |-> <<"default">>,
          suffix |-> 1]
    ELSE [is_auto_generated |-> TRUE,
          cf_name |-> <<"Unknown-CF-#", log.next_unknown_cf_name_suffix>>,
          suffix |-> log.next_unknown_cf_name_suffix + 1]

\* parse_cf_options: the block of options is consumed and its CF is
\* registered; registering a CF twice is a ParsingError.
parse_cf_options(log, log_entries, cf_options_header_available) ==
    LET auto == generate_next_unknown_cf_name(log)
        cf_name == IF cf_options_header_available THEN <<"cf1">>
                   ELSE auto.cf_name
        log1 == IF cf_options_header_available THEN log
                ELSE [log EXCEPT !.next_unknown_cf_name_suffix = auto.suffix]
        next_idx == IF cf_options_header_available
                    THEN SkipOptions(log_entries, log.entry_idx + 1)
                    ELSE SkipOptions(log_entries, log.entry_idx)
        log2 == [log1 EXCEPT !.entry_idx = next_idx]
    IN  IF SeqContains(log.cfs_names, cf_name)
        THEN [log2 EXCEPT !.raised = "ParsingError"]
        ELSE [log2 EXCEPT !.cfs_names = Append(@, cf_name)]

\* [result, log]
try_parse_as_cf_lifetime_entry(log, log_entries) ==
    IF get_entry(log_entries, log.entry_idx) = "cf_lifetime"
    THEN [result |-> TRUE, log |-> [log EXCEPT !.entry_idx = @ + 1]]
    ELSE [result |-> FALSE, log |-> log]

\* [result, log]
try_parse_as_db_wide_options(log, log_entries) ==
    IF log.db_wide_options_set
       \/ ~is_options_entry(get_entry(log_entries, log.entry_idx))
    THEN [result |-> FALSE, log |-> log]
    ELSE LET support_info_entry_idx ==
                 find_support_info_start_index(log_entries, log.entry_idx)
         IN  IF support_info_entry_idx = None
             THEN [result |-> FALSE,
                   log |-> [log EXCEPT !.raised = "ParsingError"]]
             ELSE [result |-> TRUE,
                   log |-> [log EXCEPT
                               !.db_wide_options_set = TRUE,
                               !.entry_idx = support_info_entry_idx]]

\* [result, log]
try_parse_as_cf_options(log, log_entries) ==
    LET entry == get_entry(log_entries, log.entry_idx)
    IN  IF is_cf_options_start_entry(entry)
        THEN [result |-> TRUE,
              log |-> parse_cf_options(log, log_entries, TRUE)]
        ELSE IF is_options_entry(entry)
        THEN IF ~log.db_wide_options_set
             THEN [result |-> FALSE,
                   log |-> [log EXCEPT !.raised = "AssertionError"]]
             ELSE [result |-> TRUE,
                   log |-> parse_cf_options(log, log_entries, FALSE)]
        ELSE [result |-> FALSE, log |-> log]

\* [result, log]
try_parse_as_warning_entries(log, log_entries) ==
    IF get_entry(log_entries, log.entry_idx) = "warning"
    THEN [result |-> TRUE, log |-> [log EXCEPT !.entry_idx = @ + 1]]
    ELSE [result |-> FALSE, log |-> log]

\* [result, log]; EventsMngr.try_adding_entry asserts that a preamble does
\* not contradict the one stored for its job.
try_parse_as_event_entries(log, log_entries) ==
    LET entry == get_entry(log_entries, log.entry_idx)
    IN  IF entry = "preamble_conflict"
        THEN [result |-> FALSE,
              log |-> [log EXCEPT !.raised = "AssertionError"]]
        ELSE IF entry = "event"
        THEN [result |-> TRUE, log |-> [log EXCEPT !.entry_idx = @ + 1]]
        ELSE [result |-> FALSE, log |-> log]

\* StatsMngr.try_adding_entries: [result, entry_idx, raised]
try_adding_entries(log_entries, start_entry_idx) ==
    IF ~is_dump_stats_start(get_entry(log_entries, start_entry_idx))
    THEN [result |-> FALSE, entry_idx |-> start_entry_idx,
          raised |-> "none"]
    ELSE
    LET db_stats_idx == start_entry_idx + 1
        after_idx == db_stats_idx + 1
    IN  IF ~(db_stats_idx < Len(log_entries))
        THEN \* db_stats_entry = log_entries[entry_idx]
             [result |-> FALSE, entry_idx |-> db_stats_idx,
              raised |-> "IndexError"]
        ELSE IF get_entry(log_entries, db_stats_idx) # "db_stats"
        THEN \* assert DbWideStatsMngr.is_start_line(db_stats_lines[0])
             [result |-> FALSE, entry_idx |-> db_stats_idx,
              raised |-> "AssertionError"]
        ELSE IF after_idx < Len(log_entries)
                /\ is_your_entry(get_entry(log_entries, after_idx))
        THEN IF get_entry(log_entries, after_idx) = "statistics_zero_count"
             THEN \* add_entry divides the sum by the count
                  [result |-> FALSE, entry_idx |-> after_idx,
                   raised |-> "ZeroDivisionError"]
             ELSE [result |-> TRUE, entry_idx |-> after_idx + 1,
                   raised |-> "none"]
        ELSE [result |-> TRUE, entry_idx |-> after_idx, raised |-> "none"]

\* [result, log]
try_parse_as_stats_entries(log, log_entries) ==
    LET r == try_adding_entries(log_entries, log.entry_idx)
    IN  IF r.raised # "none"
        THEN [result |-> FALSE, log |-> [log EXCEPT !.raised = r.raised]]
        ELSE [result |-> r.result,
              log |-> [log EXCEPT !.entry_idx = r.entry_idx]]

\* One iteration of the loop of parse_rest_of_log: [by, log], where by
\* names the sub-parser that took the entry.
parse_rest_of_log_iteration(log, log_entries) ==
    LET lifetime == try_parse_as_cf_lifetime_entry(log, log_entries)
        db_wide == try_parse_as_db_wide_options(log, log_entries)
        cf_options == try_parse_as_cf_options(log, log_entries)
        warning == try_parse_as_warning_entries(log, log_entries)
        event == try_parse_as_event_entries(log, log_entries)
        stats_entries == try_parse_as_stats_entries(log, log_entries)
        Took(r) == r.result \/ r.log.raised # "none"
    IN  IF Took(lifetime) THEN [by |-> "cf_lifetime", log |-> lifetime.log]
        ELSE IF Took(db_wide)
        THEN [by |-> "db_wide_options", log |-> db_wide.log]
        ELSE IF Took(cf_options)
        THEN [by |-> "cf_options", log |-> cf_options.log]
        ELSE IF Took(warning) THEN [by |-> "warning", log |-> warning.log]
        ELSE IF Took(event) THEN [by |-> "event", log |-> event.log]
        ELSE IF Took(stats_entries)
        THEN [by |-> "stats", log |-> stats_entries.log]
        ELSE [by |-> "not_parsed",
              log |-> [log EXCEPT
                  !.not_parsed_entries = Append(@, log.entry_idx),
                  !.entry_idx = @ + 1]]

StartRest ==
    /\ rest_entries = <<>>
    /\ parsed_log = ParsedLog(<<>>)
    /\ rest_status = "no log"
    /\ rest_trace = <<>>

\* ParsedLog.__init__ up to the call of parse_rest_of_log, for the entries
\* of one log file.
LoadLog ==
    /\ rest_status = "no log"
    /\ \E log_entries \in RestLogs :
           /\ rest_entries' = log_entries
           /\ parsed_log' = ParsedLog(log_entries)
    /\ rest_status' = "parsing"
    /\ UNCHANGED rest_trace
    /\ UNCHANGED allButRest

\* One iteration of the loop of parse_rest_of_log.
ParseNextEntry ==
    /\ rest_status = "parsing"
    /\ parsed_log.entry_idx < Len(rest_entries)
    /\ LET r == parse_rest_of_log_iteration(parsed_log, rest_entries)
       IN  /\ parsed_log' = r.log
           /\ rest_status' = IF r.log.raised = "none" THEN "parsing"
                             ELSE r.log.raised
           /\ rest_trace' = Append(rest_trace,
                  [from |-> parsed_log.entry_idx, to |-> r.log.entry_idx,
                   by |-> r.by, raised |-> r.log.raised])
    /\ UNCHANGED rest_entries
    /\ UNCHANGED allButRest

\* The loop ends.
ParseDone ==
    /\ rest_status = "parsing"
    /\ ~(parsed_log.entry_idx < Len(rest_entries))
    /\ rest_status' = "done"
    /\ UNCHANGED <<rest_entries, parsed_log, rest_trace>>
    /\ UNCHANGED allButRest

NextRest == LoadLog \/ ParseNextEntry \/ ParseDone

(***************************************************************************)
(* cfs_infos.py: CfMetadata, CfsMetadata                                   *)
(***************************************************************************)

LifetimeCfNames == {"default", "cf1"}

\* Largest id of a column family.
MaxCfId == 1

CfIds == 0 .. MaxCfId

\* The number of calls made on a CfsMetadata.
MaxCfCalls == 3

\* A Python bool as the integer it is equal to (True == 1, False == 0).
PyBool(b) == IF b THEN 1 ELSE 0

\* The truth value of an optional integer: None and 0 are false.
Truthy(x) == x # None /\ x # 0

\* The dataclass, with its arguments in the order of its fields.
CfMetadata(name, discovery_time, has_options, auto_generated, id, drop_time) ==
    [name |-> name, discovery_time |-> discovery_time,
     has_options |-> has_options, auto_generated |-> auto_generated,
     id |-> id, drop_time |-> drop_time]

\* cfs_info, a dict: its keys in insertion order and its values.
CfsMetadata == [order |-> <<>>, info |-> <<>>]

\* self.cfs_info[cf_name] = cf_info
SetCfInfo(cfs, cf_name, cf_info) ==
    [order |-> IF cf_name \in DOMAIN cfs.info THEN cfs.order
               ELSE Append(cfs.order, cf_name),
     info |-> [n \in DOMAIN cfs.info \cup {cf_name} |->
                  IF n = cf_name THEN cf_info ELSE cfs.info[n]]]

\* The lines of the lifetime of a CF, and a line of another kind.
LifetimeEntry(kind, cf_name, cf_id, time) ==
    [kind |-> kind, cf_name |-> cf_name, cf_id |-> cf_id, time |-> time]

LifetimeEntries(time) ==
    {LifetimeEntry(k, n, i, time) :
        k \in {"create", "recover"}, n \in LifetimeCfNames, i \in CfIds}
    \cup {LifetimeEntry("drop", NoneName, i, time) : i \in CfIds}
    \cup {LifetimeEntry("other", NoneName, None, time)}

NoLifetimeEntry == LifetimeEntry("none", NoneName, None, None)

\* The validations raise a ParsingError when they do not hold.
validate_cf_exists(cfs, cf_name) == cf_name \in DOMAIN cfs.info

validate_cf_doesnt_exist(cfs, cf_name) == cf_name \notin DOMAIN cfs.info

validate_cf_id_unknown_or_same(cfs, cf_name, cf_id) ==
    LET curr_cf_id == cfs.info[cf_name].id
    IN  ~(Truthy(curr_cf_id) /\ curr_cf_id # cf_id)

validate_cf_wasnt_dropped(cf_info) == cf_info.drop_time = None

\* [cfs, raised]
add_cf_found_during_cf_options_parsing(cfs, cf_name, cf_id, auto, time) ==
    IF ~validate_cf_doesnt_exist(cfs, cf_name)
    THEN [cfs |-> cfs, raised |-> "ParsingError"]
    ELSE [cfs |-> SetCfInfo(cfs, cf_name,
                      CfMetadata(cf_name, time, PyBool(TRUE), auto, cf_id,
                                 None)),
          raised |-> "none"]

\* [result, cfs]
handle_cf_name_found_during_parsing(cfs, cf_name, time) ==
    IF cf_name \in DOMAIN cfs.info
    THEN [result |-> FALSE, cfs |-> cfs]
    ELSE [result |-> TRUE,
          cfs |-> SetCfInfo(cfs, cf_name,
                      CfMetadata(cf_name, time, PyBool(FALSE), FALSE,
                                 None, None))]

get_cf_id(cfs, cf_name) ==
    IF cf_name \in DOMAIN cfs.info THEN cfs.info[cf_name].id ELSE None

\* The name of the first CF of the dict with this id, or NoneName.
get_cf_info_by_id(cfs, cf_id) ==
    LET found == {k \in DOMAIN cfs.order : cfs.info[cfs.order[k]].id = cf_id}
    IN  IF found = {} THEN NoneName ELSE cfs.order[SetMin(found)]

\* [cfs, raised]: the record is built anew, the id of the line in the
\* place of has_options, and False in the place of auto_generated; id and
\* drop_time take their default, None.
update_cf(cfs, cf_name, cf_id, time) ==
    IF ~validate_cf_exists(cfs, cf_name)
       \/ ~validate_cf_id_unknown_or_same(cfs, cf_name, cf_id)
    THEN [cfs |-> cfs, raised |-> "ParsingError"]
    ELSE [cfs |-> SetCfInfo(cfs, cf_name,
                      CfMetadata(cf_name, time, cf_id, FALSE, None, None)),
          raised |-> "none"]

\* try_parse_as_drop_cf that sets the drop time of a dropped CF again.
try_parse_as_drop_cf_DropsAgain(cfs, entry) ==
    IF entry.kind # "drop"
    THEN [matched |-> FALSE, cfs |-> cfs, raised |-> "none"]
    ELSE LET name == get_cf_info_by_id(cfs, entry.cf_id)
         IN  IF name = NoneName
             THEN [matched |-> TRUE, cfs |-> cfs, raised |-> "none"]
             ELSE [matched |-> TRUE, raised |-> "none",
                   cfs |-> [cfs EXCEPT
                               !.info[name].drop_time = entry.time]]

\* [matched, cfs, raised]
try_parse_as_drop_cf(cfs, entry) ==
    IF entry.kind # "drop"
    THEN [matched |-> FALSE, cfs |-> cfs, raised |-> "none"]
    ELSE LET name == get_cf_info_by_id(cfs, entry.cf_id)
         IN  IF name = NoneName
             THEN [matched |-> TRUE, cfs |-> cfs, raised |-> "none"]
             ELSE IF ~validate_cf_wasnt_dropped(cfs.info[name])
             THEN [matched |-> FALSE, cfs |-> cfs,
                   raised |-> "ParsingError"]
             ELSE [matched |-> TRUE, raised |-> "none",
                   cfs |-> [cfs EXCEPT
                               !.info[name].drop_time = entry.time]]

\* [matched, cfs, raised]
try_parse_as_recover_cf(cfs, entry) ==
    IF entry.kind # "recover"
    THEN [matched |-> FALSE, cfs |-> cfs, raised |-> "none"]
    ELSE IF ~validate_cf_exists(cfs, entry.cf_name)
    THEN [matched |-> FALSE, cfs |-> cfs, raised |-> "ParsingError"]
    ELSE LET r == update_cf(cfs, entry.cf_name, entry.cf_id, entry.time)
         IN  [matched |-> r.raised = "none", cfs |-> r.cfs,
              raised |-> r.raised]

\* [matched, cfs, raised]
try_parse_as_create_cf(cfs, entry) ==
    IF entry.kind # "create"
    THEN [matched |-> FALSE, cfs |-> cfs, raised |-> "none"]
    ELSE LET r == update_cf(cfs, entry.cf_name, entry.cf_id, entry.time)
         IN  [matched |-> r.raised = "none", cfs |-> r.cfs,
              raised |-> r.raised]

\* [result, next_entry_idx, cfs, error]: the ParsingError of a lifetime
\* line is caught and logged, and the line is consumed.
try_parse_as_cf_lifetime_entries(cfs, entry, entry_idx) ==
    LET next_entry_idx == entry_idx + 1
        drop == try_parse_as_drop_cf(cfs, entry)
        recover == try_parse_as_recover_cf(cfs, entry)
        create == try_parse_as_create_cf(cfs, entry)
        first == IF drop.matched \/ drop.raised # "none" THEN drop
                 ELSE IF recover.matched \/ recover.raised # "none"
                 THEN recover
                 ELSE create
    IN  IF first.raised # "none"
        THEN [result |-> "True", next_entry_idx |-> next_entry_idx,
              cfs |-> first.cfs, error |-> first.raised]
        ELSE IF first.matched
        THEN [result |-> "True", next_entry_idx |-> next_entry_idx,
              cfs |-> first.cfs, error |-> "none"]
        ELSE [result |-> "None", next_entry_idx |-> entry_idx,
              cfs |-> cfs, error |-> "none"]

NoCfsRet ==
    [result |-> "none", entry_idx |-> 0, next_entry_idx |-> 0,
     error |-> "none"]

StartCfs ==
    /\ cfs_metadata = CfsMetadata
    /\ cfs_entry = NoLifetimeEntry
    /\ cfs_ret = NoCfsRet
    /\ cfs_count = 0
    /\ cfs_dropped = {}

\* add_cf_found_during_cf_options_parsing for the options of a CF; the ids
\* of the CFs of a database are different.
AddCfFoundDuringCfOptionsParsing ==
    \E cf_name \in LifetimeCfNames, cf_id \in CfIds \cup {None},
       is_auto_generated \in BOOLEAN :
        /\ cfs_count < MaxCfCalls
        /\ cf_id # None => get_cf_info_by_id(cfs_metadata, cf_id) = NoneName
        /\ LET r == add_cf_found_during_cf_options_parsing(
                        cfs_metadata, cf_name, cf_id, is_auto_generated,
                        cfs_count)
           IN  /\ cfs_metadata' = r.cfs
               /\ cfs_ret' = [NoCfsRet EXCEPT !.error = r.raised]
        /\ cfs_count' = cfs_count + 1
        /\ cfs_entry' = NoLifetimeEntry
        /\ UNCHANGED cfs_dropped
        /\ UNCHANGED allButCfs

\* handle_cf_name_found_during_parsing for a name found in an entry.
HandleCfNameFoundDuringParsing ==
    \E cf_name \in LifetimeCfNames :
        /\ cfs_count < MaxCfCalls
        /\ cfs_metadata' = handle_cf_name_found_during_parsing(
                               cfs_metadata, cf_name, cfs_count).cfs
        /\ cfs_ret' = NoCfsRet
        /\ cfs_count' = cfs_count + 1
        /\ cfs_entry' = NoLifetimeEntry
        /\ UNCHANGED cfs_dropped
        /\ UNCHANGED allButCfs

\* try_parse_as_cf_lifetime_entries for the entry under the cursor.
TryParseAsCfLifetimeEntries ==
    \E entry \in LifetimeEntries(cfs_count) :
        /\ cfs_count < MaxCfCalls
        /\ LET r == try_parse_as_cf_lifetime_entries(cfs_metadata, entry,
                                                     cfs_count)
           IN  /\ cfs_metadata' = r.cfs
               /\ cfs_ret' = [result |-> r.result, entry_idx |-> cfs_count,
                              next_entry_idx |-> r.next_entry_idx,
                              error |-> r.error]
               /\ cfs_dropped' = cfs_dropped \cup
                      {n \in DOMAIN cfs_metadata.info :
                          r.cfs.info[n].drop_time #
                              cfs_metadata.info[n].drop_time
                          /\ r.cfs.info[n].drop_time # None}
        /\ cfs_count' = cfs_count + 1
        /\ cfs_entry' = entry
        /\ UNCHANGED allButCfs

NextCfs ==
    \/ AddCfFoundDuringCfOptionsParsing
    \/ HandleCfNameFoundDuringParsing
    \/ TryParseAsCfLifetimeEntries

(***************************************************************************)
(* log_file.py: ParsedLog.parse_cf_options and                             *)
(* ParsedLog.handle_cf_name_found_during_parsing, as they name and         *)
(* register the column families of a log                                   *)
(*                                                                         *)
(* A CF name is a tuple: <<"default">>, <<"cf1">>, and                     *)
(* <<"Unknown-CF-#", n>> for f"Unknown-CF-#{n}".  A header can carry any   *)
(* of them.  LogFileOptionsParser.parse_cf_options is not part of the      *)
(* sources at hand; by its contract it returns the name of the header, or  *)
(* the auto-generated name it was given when there is no header.           *)
(***************************************************************************)

\* The number of CF option blocks of a log.
MaxBlocks == 4

DEFAULT_CF_NAME == <<"default">>

\* No header: cf_options_header_available is False.
NoHeader == <<>>

HeaderNames == {DEFAULT_CF_NAME, <<"cf1">>, <<"Unknown-CF-#", 1>>}

\* The CF names that events, warnings and stats carry.
FoundCfNames == {DEFAULT_CF_NAME, <<"cf1">>}

\* The fields of ParsedLog that parse_cf_options reads and writes.
ParsedLogNames ==
    [next_unknown_cf_name_suffix |-> None,
     cfs_metadata |-> CfsMetadata,
     events_mngr |-> EventsMngr,
     raised |-> "none"]

\* ParsedLog.update_my_entities_on_new_cf
update_my_entities_on_new_cf(log, cf_name) ==
    [log EXCEPT !.events_mngr = add_cf_name(@, cf_name)]

\* [log, cf_name, is_auto_generated]: ParsedLog.parse_cf_options for a block
\* with the header named header, or with no header; time is the time of the
\* current entry.
ParsedLog_parse_cf_options(log, header, time) ==
    LET cf_options_header_available == header # NoHeader
        auto == generate_next_unknown_cf_name(log)
        is_auto_generated ==
            IF cf_options_header_available THEN FALSE
            ELSE auto.is_auto_generated
        log1 == IF cf_options_header_available THEN log
                ELSE [log EXCEPT !.next_unknown_cf_name_suffix = auto.suffix]
        cf_name == IF cf_options_header_available THEN header
                   ELSE auto.cf_name
        added == add_cf_found_during_cf_options_parsing(
                     log1.cfs_metadata, cf_name, None, is_auto_generated,
                     time)
        log2 == [log1 EXCEPT !.cfs_metadata = added.cfs,
                             !.raised = added.raised]
    IN  [log |-> IF added.raised = "none" /\ ~is_auto_generated
                 THEN update_my_entities_on_new_cf(log2, cf_name)
                 ELSE log2,
         cf_name |-> cf_name,
         is_auto_generated |-> is_auto_generated]

\* ParsedLog.handle_cf_name_found_during_parsing
ParsedLog_handle_cf_name_found_during_parsing(log, cf_name, time) ==
    LET found == handle_cf_name_found_during_parsing(log.cfs_metadata,
                                                     cf_name, time)
    IN  IF ~found.result THEN log
        ELSE update_my_entities_on_new_cf(
                 [log EXCEPT !.cfs_metadata = found.cfs], cf_name)

StartNames ==
    /\ names_log = ParsedLogNames
    /\ names_blocks = <<>>

\* try_parse_as_cf_options comes to a block of CF options.
ParseCfOptions ==
    /\ names_log.raised = "none"
    /\ Len(names_blocks) < MaxBlocks
    /\ \E header \in HeaderNames \cup {NoHeader} :
           LET r == ParsedLog_parse_cf_options(names_log, header,
                                               Len(names_blocks))
           IN  /\ names_log' = r.log
               /\ names_blocks' =
                      Append(names_blocks,
                             [header |-> header, cf_name |-> r.cf_name,
                              is_auto_generated |-> r.is_auto_generated,
                              raised |-> r.log.raised])
    /\ UNCHANGED allButNames

\* An event, a warning or a stats table names a CF.
CfNameFoundDuringParsing ==
    /\ names_log.raised = "none"
    /\ \E cf_name \in FoundCfNames :
           names_log' = ParsedLog_handle_cf_name_found_during_parsing(
                            names_log, cf_name, Len(names_blocks))
    /\ UNCHANGED names_blocks
    /\ UNCHANGED allButNames

NextNames == ParseCfOptions \/ CfNameFoundDuringParsing
(***************************************************************************)
(* Several ParsedLog instances in one process: the log under analysis and  *)
(* the baseline log of baseline_log_files_utils.get_baseline_database_     *)
(* options.  ParsedLog.__init__ builds its events manager by EventsMngr(), *)
(* so self.cf_names of every manager is the object that the default value  *)
(* of the parameter cf_names=[] was evaluated to when the function was     *)
(* defined.                                                                *)
(***************************************************************************)

\* The ParsedLog instances of the process.
LogIds == {1, 2}

\* The number of calls on the events manager of one ParsedLog.
MaxLogCalls == 2

\* The entries handed to the managers: a preamble of job 1, the event of job
\* 1 and another entry.
InstanceEntries ==
    {[kind |-> "preamble", cf_name |-> "cf1", job_id |-> 1,
      rest |-> "Flushing memtable with next log file"],
     [kind |-> "event", json_ok |-> TRUE,
      json |-> EventJson(FLUSH_STARTED, 1, NoneName, 1)],
     [kind |-> "other"]}

NoParsedLog == [constructed |-> FALSE]

\* EventsMngr.__init__ without an argument: preambles and events are new
\* dicts, cf_names is the list of the default value.  own_cf_names is the
\* list the manager would have if the list were its own.
NewParsedLog ==
    [constructed |-> TRUE,
     preambles |-> <<>>, events |-> <<>>,
     own_cf_names |-> <<>>,
     calls |-> 0,
     ret |-> <<>>, own_ret |-> <<>>]

\* The events manager of a ParsedLog, self.cf_names being the object
\* cf_names.
MngrOf(log, cf_names) ==
    [cf_names |-> cf_names, preambles |-> log.preambles,
     events |-> log.events]

StartInstances ==
    /\ default_cf_names = <<>>
    /\ parsed_logs = [i \in LogIds |-> NoParsedLog]

\* ParsedLog.__init__
ConstructParsedLog ==
    \E i \in LogIds :
        /\ ~parsed_logs[i].constructed
        /\ parsed_logs' = [parsed_logs EXCEPT ![i] = NewParsedLog]
        /\ UNCHANGED default_cf_names
        /\ UNCHANGED allButInstances

\* update_my_entities_on_new_cf of one ParsedLog: events_mngr.add_cf_name
\* appends to self.cf_names.
InstanceAddCfName ==
    \E i \in LogIds, cf_name \in EventCfNames :
        /\ parsed_logs[i].constructed
        /\ parsed_logs[i].calls < MaxLogCalls
        /\ default_cf_names' =
               add_cf_name(MngrOf(parsed_logs[i], default_cf_names),
                           cf_name).cf_names
        /\ parsed_logs' =
               [parsed_logs EXCEPT
                   ![i].calls = @ + 1,
                   ![i].own_cf_names =
                       add_cf_name(MngrOf(parsed_logs[i], @),
                                   cf_name).cf_names]
        /\ UNCHANGED allButInstances

\* events_mngr.try_adding_entry of one ParsedLog.
InstanceTryAddingEntry ==
    \E i \in LogIds, entry \in InstanceEntries :
        /\ parsed_logs[i].constructed
        /\ parsed_logs[i].calls < MaxLogCalls
        /\ LET r == try_adding_entry(
                        MngrOf(parsed_logs[i], default_cf_names), entry)
               own == try_adding_entry(
                          MngrOf(parsed_logs[i],
                                 parsed_logs[i].own_cf_names), entry)
           IN  parsed_logs' =
                   [parsed_logs EXCEPT
                       ![i].calls = @ + 1,
                       ![i].preambles = r.mngr.preambles,
                       ![i].events = r.mngr.events,
                       ![i].ret = <<r.result, r.cf_name, r.raised>>,
                       ![i].own_ret =
                           <<own.result, own.cf_name, own.raised>>]
        /\ UNCHANGED default_cf_names
        /\ UNCHANGED allButInstances

NextInstances ==
    ConstructParsedLog \/ InstanceAddCfName \/ InstanceTryAddingEntry
(***************************************************************************)
(* baseline_log_files_utils.py: Version, BaselineLogFileInfo,              *)
(* find_all_baseline_log_files, find_closest_version_idx,                  *)
(* find_closest_baseline_log_file_name                                     *)
(***************************************************************************)

\* The number of baseline log files of the folder.
MaxFiles == 3

VersionMajors == {1, 2}

VersionMinors == {0, 5}

\* The patch of a version string without one is None.
VersionPatches == {None, 0, 3}

\* Version.__init__, from the three groups of the version string.
Version(major, minor, patch) ==
    [major |-> major, minor |-> minor, patch |-> patch]

Versions ==
    {Version(major, minor, patch) :
        major \in VersionMajors, minor \in VersionMinors,
        patch \in VersionPatches}

get_patch_for_comparison(version) ==
    IF version.patch = None THEN -1 ELSE version.patch

\* Version.__eq__
Version_eq(version, other) ==
    /\ version.major = other.major
    /\ version.minor = other.minor
    /\ get_patch_for_comparison(version) = get_patch_for_comparison(other)

\* Version.__lt__
Version_lt(version, other) ==
    IF version.major # other.major THEN version.major < other.major
    ELSE IF version.minor # other.minor THEN version.minor < other.minor
    ELSE get_patch_for_comparison(version) < get_patch_for_comparison(other)

BaselineLogFileInfo(file_name, version) ==
    [file_name |-> file_name, version |-> version]

\* BaselineLogFileInfo.__lt__
BaselineLogFileInfo_lt(info, other) == Version_lt(info.version, other.version)

RECURSIVE SortedOrder(_)
\* list.sort() by Version.__lt__, a stable sort: the indices of versions in
\* the order in which the sorted list holds them.
SortedOrder(versions) ==
    IF versions = <<>> THEN <<>>
    ELSE LET n == Len(versions)
             rest == SortedOrder(SubSeq(versions, 1, n - 1))
             before == {i \in 1 .. Len(rest) :
                           ~Version_lt(versions[n], versions[rest[i]])}
             k == Cardinality(before)
         IN  SubSeq(rest, 1, k) \o <<n>> \o SubSeq(rest, k + 1, Len(rest))

\* files.sort(), with BaselineLogFileInfo.__lt__.
files_sort(files) ==
    LET order == SortedOrder([i \in DOMAIN files |-> files[i].version])
    IN  [i \in DOMAIN files |-> files[order[i]]]

\* baseline_versions.sort()
baseline_versions_sort(baseline_versions) ==
    LET order == SortedOrder(baseline_versions)
    IN  [i \in DOMAIN baseline_versions |-> baseline_versions[order[i]]]

RECURSIVE bisect_left(_, _, _, _)
\* bisect.bisect_left(a, x), from lo = 0 and hi = len(a).
bisect_left(a, x, lo, hi) ==
    IF ~(lo < hi) THEN lo
    ELSE LET mid == (lo + hi) \div 2
         IN  IF Version_lt(a[mid + 1], x) THEN bisect_left(a, x, mid + 1, hi)
             ELSE bisect_left(a, x, lo, mid)

RECURSIVE bisect_right(_, _, _, _)
\* bisect.bisect_right(a, x), from lo = 0 and hi = len(a); a[mid] of the
\* code is a[mid + 1] here.
bisect_right(a, x, lo, hi) ==
    IF ~(lo < hi) THEN lo
    ELSE LET mid == (lo + hi) \div 2
         IN  IF Version_lt(x, a[mid + 1]) THEN bisect_right(a, x, lo, mid)
             ELSE bisect_right(a, x, mid + 1, hi)

\* find_closest_version_idx with bisect_left in the place of bisect_right.
find_closest_version_idx_BisectLeft(baseline_versions, version) ==
    IF Version_eq(baseline_versions[1], version)
    THEN [idx |-> 0, baseline_versions |-> baseline_versions]
    ELSE LET sorted == baseline_versions_sort(baseline_versions)
             closest_version_idx ==
                 bisect_left(sorted, version, 0, Len(sorted))
         IN  [idx |-> IF closest_version_idx # 0
                      THEN closest_version_idx - 1 ELSE None,
              baseline_versions |-> sorted]

\* [idx, baseline_versions]: the index returned (None for None) and the
\* caller's list after the call, which sorts it in place.
find_closest_version_idx(baseline_versions, version) ==
    IF Version_eq(baseline_versions[1], version)
    THEN [idx |-> 0, baseline_versions |-> baseline_versions]
    ELSE LET sorted == baseline_versions_sort(baseline_versions)
             closest_version_idx ==
                 bisect_right(sorted, version, 0, Len(sorted))
         IN  [idx |-> IF closest_version_idx # 0
                      THEN closest_version_idx - 1 ELSE None,
              baseline_versions |-> sorted]

\* The folder is the list of its files in the order of iterdir().
find_all_baseline_log_files(folder) == files_sort(folder)

\* [found, file_name, version] and, for the record, what the call of
\* find_closest_version_idx returned and the lists of the caller.
find_closest_baseline_log_file_name(folder, version) ==
    LET baseline_files == find_all_baseline_log_files(folder)
        baseline_versions ==
            [i \in DOMAIN baseline_files |-> baseline_files[i].version]
        closest == find_closest_version_idx(baseline_versions, version)
        none == [found |-> FALSE, file_name |-> None, version |-> None,
                 idx |-> None, baseline_files |-> baseline_files,
                 baseline_versions |-> baseline_versions]
    IN  IF baseline_versions = <<>> THEN none
        ELSE IF closest.idx = None
        THEN [none EXCEPT !.baseline_versions = closest.baseline_versions]
        ELSE [found |-> TRUE,
              file_name |-> baseline_files[closest.idx + 1].file_name,
              version |-> baseline_files[closest.idx + 1].version,
              idx |-> closest.idx,
              baseline_files |-> baseline_files,
              baseline_versions |-> closest.baseline_versions]

NoBaselineCall == [target |-> None]

StartBaseline ==
    /\ baseline_folder = <<>>
    /\ baseline_call = NoBaselineCall

\* A baseline log file comes to be in the folder; its name is its number.
AddBaselineFile ==
    /\ Len(baseline_folder) < MaxFiles
    /\ \E version \in Versions :
           baseline_folder' =
               Append(baseline_folder,
                      BaselineLogFileInfo(Len(baseline_folder) + 1, version))
    /\ baseline_call' = NoBaselineCall
    /\ UNCHANGED allButBaseline

\* One call of find_closest_baseline_log_file_name.
FindClosestBaselineLogFileName ==
    /\ baseline_call = NoBaselineCall
    /\ \E version \in Versions :
           baseline_call' =
               [target |-> version,
                ret |-> find_closest_baseline_log_file_name(baseline_folder,
                                                            version)]
    /\ UNCHANGED baseline_folder
    /\ UNCHANGED allButBaseline

NextBaseline == AddBaselineFile \/ FindClosestBaselineLogFileName
(***************************************************************************)
(* log_file.py: LogFileMetadata, ParsedLog.parse_metadata and              *)
(* ParsedLog.set_end_time                                                  *)
(*                                                                         *)
(* An entry of the metadata region is modelled by its time and by what the *)
(* three patterns find in its first line.  A time is a number of ticks;    *)
(* parse_date_time orders the time strings as the ticks are ordered.       *)
(***************************************************************************)

\* The number of entries before the first options entry.
MaxMetaEntries == 3

MetaTimes == {1, 2}

\* What the first line of an entry holds: a product and a version, a git
\* hash, a session id, or none of them.
MetaFinds ==
    {[kind |-> "product_and_version", value |-> <<"RocksDB", "7.2.2">>],
     [kind |-> "product_and_version", value |-> <<"Speedb", "2.1">>],
     [kind |-> "git_hash", value |-> "4ae6e5a8"],
     [kind |-> "git_hash", value |-> "UNKNOWN"],
     [kind |-> "db_session_id", value |-> "DS38MRYNWTI2P2TE33GD"],
     [kind |-> "db_session_id", value |-> "0F7MZ0RR0IXVVBZVQPS6"],
     [kind |-> "other", value |-> NoneName]}

MetaEntries == [time : MetaTimes, find : MetaFinds]

\* LogFileMetadata.__init__ up to its loop; start_time is the time of the
\* first entry, None when there is no entry.
LogFileMetadata(start_time) ==
    [product_name |-> NoneName, version |-> NoneName,
     db_session_id |-> NoneName, git_hash |-> NoneName,
     start_time |-> start_time, end_time |-> None]

\* The truth value of an optional string: None and '' are false.
TruthyName(x) == x # NoneName /\ x # ""

\* [matched, metadata, raised]
try_parse_as_product_and_version_entry(metadata, log_entry) ==
    IF log_entry.find.kind # "product_and_version"
    THEN [matched |-> FALSE, metadata |-> metadata, raised |-> "none"]
    ELSE IF TruthyName(metadata.product_name) \/ TruthyName(metadata.version)
    THEN [matched |-> FALSE, metadata |-> metadata,
          raised |-> "ParsingError"]
    ELSE [matched |-> TRUE,
          metadata |-> [metadata EXCEPT
                           !.product_name = log_entry.find.value[1],
                           !.version = log_entry.find.value[2]],
          raised |-> "none"]

\* try_parse_as_git_hash_entry without the test of self.git_hash.
try_parse_as_git_hash_entry_Overwrites(metadata, log_entry) ==
    IF log_entry.find.kind # "git_hash"
    THEN [matched |-> FALSE, metadata |-> metadata, raised |-> "none"]
    ELSE [matched |-> TRUE,
          metadata |-> [metadata EXCEPT !.git_hash = log_entry.find.value],
          raised |-> "none"]

\* [matched, metadata, raised]
try_parse_as_git_hash_entry(metadata, log_entry) ==
    IF log_entry.find.kind # "git_hash"
    THEN [matched |-> FALSE, metadata |-> metadata, raised |-> "none"]
    ELSE IF TruthyName(metadata.git_hash)
    THEN [matched |-> FALSE, metadata |-> metadata,
          raised |-> "ParsingError"]
    ELSE [matched |-> TRUE,
          metadata |-> [metadata EXCEPT !.git_hash = log_entry.find.value],
          raised |-> "none"]

\* [matched, metadata, raised]
try_parse_as_db_session_id_entry(metadata, log_entry) ==
    IF log_entry.find.kind # "db_session_id"
    THEN [matched |-> FALSE, metadata |-> metadata, raised |-> "none"]
    ELSE IF TruthyName(metadata.db_session_id)
    THEN [matched |-> FALSE, metadata |-> metadata,
          raised |-> "ParsingError"]
    ELSE [matched |-> TRUE,
          metadata |-> [metadata EXCEPT
                           !.db_session_id = log_entry.find.value],
          raised |-> "none"]

\* One iteration of the loop of LogFileMetadata.__init__: [metadata, raised]
LogFileMetadata_entry(metadata, log_entry) ==
    LET product == try_parse_as_product_and_version_entry(metadata,
                                                          log_entry)
        git_hash == try_parse_as_git_hash_entry(metadata, log_entry)
        session == try_parse_as_db_session_id_entry(metadata, log_entry)
    IN  IF product.matched \/ product.raised # "none"
        THEN [metadata |-> product.metadata, raised |-> product.raised]
        ELSE IF git_hash.matched \/ git_hash.raised # "none"
        THEN [metadata |-> git_hash.metadata, raised |-> git_hash.raised]
        ELSE [metadata |-> session.metadata, raised |-> session.raised]

\* LogFileMetadata.is_valid
LogFileMetadata_is_valid(metadata) ==
    TruthyName(metadata.product_name) /\ TruthyName(metadata.version)

\* LogFileMetadata.set_end_time without its second assertion.
LogFileMetadata_set_end_time_AnyOrder(metadata, end_time) ==
    IF metadata.end_time # None
    THEN [metadata |-> metadata, raised |-> "AssertionError"]
    ELSE [metadata |-> [metadata EXCEPT !.end_time = end_time],
          raised |-> "none"]

\* [metadata, raised]
LogFileMetadata_set_end_time(metadata, end_time) ==
    IF metadata.end_time # None
    THEN [metadata |-> metadata, raised |-> "AssertionError"]
    ELSE IF ~(end_time >= metadata.start_time)
    THEN [metadata |-> metadata, raised |-> "AssertionError"]
    ELSE [metadata |-> [metadata EXCEPT !.end_time = end_time],
          raised |-> "none"]

\* ParsedLog.__init__ has tokenized the log; the metadata is not built.
StartMeta ==
    /\ meta_entries = <<>>
    /\ meta = [status |-> "parse_metadata", metadata |-> LogFileMetadata(None),
               last_time |-> None]

\* LogFileMetadata.__init__ comes to the next entry of the metadata region.
ParseMetadataEntry ==
    /\ meta.status = "parse_metadata"
    /\ Len(meta_entries) < MaxMetaEntries
    /\ \E log_entry \in MetaEntries :
           LET metadata == IF meta_entries = <<>>
                           THEN LogFileMetadata(log_entry.time)
                           ELSE meta.metadata
               r == LogFileMetadata_entry(metadata, log_entry)
           IN  /\ meta_entries' = Append(meta_entries, log_entry)
               /\ meta' = [meta EXCEPT
                              !.metadata = r.metadata,
                              !.last_time = log_entry.time,
                              !.status = IF r.raised = "none" THEN @
                                         ELSE r.raised]
    /\ UNCHANGED allButMeta

\* The metadata region ends, at the end of the log or before the first
\* options entry, after which the log goes on to an entry of any time:
\* parse_metadata tests the metadata.
ParseMetadataEnds ==
    /\ meta.status = "parse_metadata"
    /\ \E last_time \in MetaTimes \cup {None} :
           /\ meta_entries = <<>> => last_time # None
           /\ meta' = [meta EXCEPT
                          !.status =
                              IF LogFileMetadata_is_valid(meta.metadata)
                              THEN "set_end_time" ELSE "InvalidLogFile",
                          !.last_time =
                              IF last_time = None THEN @ ELSE last_time]
    /\ UNCHANGED meta_entries
    /\ UNCHANGED allButMeta

\* ParsedLog.set_end_time
SetEndTime ==
    /\ meta.status = "set_end_time"
    /\ LET r == LogFileMetadata_set_end_time(meta.metadata, meta.last_time)
       IN  meta' = [meta EXCEPT
                       !.metadata = r.metadata,
                       !.status = IF r.raised = "none"
                                  THEN "parse_rest_of_log" ELSE r.raised]
    /\ UNCHANGED meta_entries
    /\ UNCHANGED allButMeta

\* parse_rest_of_log returns or raises: the ParsedLog is constructed, or it
\* is not.
ParseRestOfLogEnds ==
    /\ meta.status = "parse_rest_of_log"
    /\ \E status \in {"constructed", "ParsingError"} :
           meta' = [meta EXCEPT !.status = status]
    /\ UNCHANGED meta_entries
    /\ UNCHANGED allButMeta

NextMeta ==
    \/ ParseMetadataEntry
    \/ ParseMetadataEnds
    \/ SetEndTime
    \/ ParseRestOfLogEnds

(***************************************************************************)
(* The bloom filter counters of the derived metrics (calc_utils.py)        *)
(***************************************************************************)

\* Longest sequence of counter lines given to the counters manager.
MaxFilterLines == 3

\* Largest value of a counter line.
MaxFilterValue == 3

\* filter_counters_names of collect_filter_counters: field -> counter.
filter_counters_names ==
    [negatives |-> "rocksdb.bloom.filter.useful",
     positives |-> "rocksdb.bloom.filter.full.positive",
     true_positives |-> "rocksdb.bloom.filter.full.true.positive"]

\* The counters of the lines: the three of the filter, and another one.
FilterLineNames ==
    {filter_counters_names.negatives, filter_counters_names.positives,
     filter_counters_names.true_positives, "rocksdb.block.cache.miss"}

\* Whether the manager holds a counter or a histogram.
does_have_values(mngr) ==
    mngr.counters.order # <<>> \/ mngr.histograms.order # <<>>

\* FilterCounters(), a dataclass of five integers that default to 0.
FilterCounters ==
    [negatives |-> 0, positives |-> 0, true_positives |-> 0,
     false_positives |-> 0, one_in_n_fpr |-> 0]

\* [raised, counters]; counters is None when there are no counters.
collect_filter_counters(counters_mngr) ==
    IF ~does_have_values(counters_mngr)
    THEN [raised |-> "none", available |-> FALSE, counters |-> FilterCounters]
    ELSE LET counters ==
                 [FilterCounters EXCEPT
                     !.negatives = get_last_counter_value(
                         counters_mngr, filter_counters_names.negatives),
                     !.positives = get_last_counter_value(
                         counters_mngr, filter_counters_names.positives),
                     !.true_positives = get_last_counter_value(
                         counters_mngr, filter_counters_names.true_positives)]
         IN  IF ~(counters.positives >= counters.true_positives)
             THEN [raised |-> "AssertionError", available |-> TRUE,
                   counters |-> counters]
             ELSE [raised |-> "none", available |-> TRUE,
                   counters |-> [counters EXCEPT !.false_positives =
                       counters.positives - counters.true_positives]]

\* int(total / false_positives): [raised, value]. The quotient of two
\* non-negative integers, truncated.
calc_bloom_1_in_fpr(counters) ==
    LET total == counters.negatives + counters.positives
        false_positives == counters.false_positives
    IN  IF false_positives = 0
        THEN [raised |-> "ZeroDivisionError", value |-> 0]
        ELSE [raised |-> "none", value |-> total \div false_positives]

\* calc_filter_stats for a files monitor that has seen no file
\* (files_filter_stats stays None): [kind, available, filter_counters].
calc_filter_stats(counters_mngr) ==
    LET collected == collect_filter_counters(counters_mngr)
        one_in_n_fpr == calc_bloom_1_in_fpr(collected.counters)
    IN  IF collected.raised # "none"
        THEN [kind |-> collected.raised, available |-> TRUE,
              filter_counters |-> FilterCounters]
        ELSE IF ~collected.available
        THEN [kind |-> "returned", available |-> FALSE,
              filter_counters |-> FilterCounters]
        ELSE IF one_in_n_fpr.raised # "none"
        THEN [kind |-> one_in_n_fpr.raised, available |-> TRUE,
              filter_counters |-> FilterCounters]
        ELSE [kind |-> "returned", available |-> TRUE,
              filter_counters |->
                  [collected.counters EXCEPT
                      !.one_in_n_fpr = one_in_n_fpr.value]]

NoFilterCall ==
    [kind |-> "not called", available |-> FALSE,
     filter_counters |-> FilterCounters]

StartFilter ==
    /\ filter_mngr = StatsCountersAndHistogramsMngr
    /\ filter_call = [count |-> 0, ret |-> NoFilterCall]

\* One counter line of a statistics dump reaches the counters manager.
AddFilterCounterLine ==
    /\ filter_call.count < MaxFilterLines
    /\ \E name \in FilterLineNames, value \in 0 .. MaxFilterValue :
           /\ filter_mngr' =
                  try_parse_counter_line(filter_mngr, filter_call.count,
                                         CounterLine(name, value)).mngr
           /\ filter_call' =
                  [count |-> filter_call.count + 1, ret |-> NoFilterCall]
    /\ UNCHANGED allButFilter

\* The report asks for the filter statistics of the counters read so far.
CalcFilterStats ==
    /\ filter_call' =
           [filter_call EXCEPT !.ret = calc_filter_stats(filter_mngr)]
    /\ UNCHANGED filter_mngr
    /\ UNCHANGED allButFilter

NextFilter == AddFilterCounterLine \/ CalcFilterStats

(***************************************************************************)
(* The flush statistics of the derived metrics (calc_utils.py)             *)
(***************************************************************************)

\* Largest number of flushes of the CF.
MaxFlushes == 2

\* 10 ** 30 in the source: an integer above every duration, count and size.
\* Here the largest integer of the model, above every value of the inputs.
MAX_INT == 2147483647

FLUSHED_SIZES_HISTOGRAM_BUCKETS_MB == <<2, 10, 32, 64>>

FlushReasons == {"Write Buffer Full", "Manual Flush"}

\* total_data_size of the flush-started events, in bytes: 1 MB, 2 MB, 9 MB,
\* 64 MB and 64.1 MB.
FlushSizesBytes ==
    {2^20, 2 * 2^20, 9 * 2^20, 64 * 2^20, 67213722}

FlushNumMemtables == {1, 2}

\* Milliseconds from a flush-started event to its flush-finished event.
FlushDurationsMs == {1, 3}

\* A pair (start event, end event) of get_cf_flow_events(FlowType.FLUSH,
\* cf_name); end_time is None when the flush has no flush-finished event.
FlushEventsPairs(start_time) ==
    [flush_reason : FlushReasons,
     num_memtables : FlushNumMemtables,
     total_data_size_bytes : FlushSizesBytes,
     start_time : {start_time},
     end_time : {None} \cup {start_time + d : d \in FlushDurationsMs}]

\* MatchingEventInfo.get_duration_ms: from the start event to the end one.
get_duration_ms(events_pair) ==
    events_pair.end_time - events_pair.start_time

RECURSIVE bisect_IsBisectLeft(_, _, _, _)
\* bisect.bisect_left in the place of bisect.bisect.
bisect_IsBisectLeft(a, x, lo, hi) ==
    IF ~(lo < hi) THEN lo
    ELSE LET mid == (lo + hi) \div 2
         IN  IF a[mid + 1] * x.den < x.num
             THEN bisect_IsBisectLeft(a, x, mid + 1, hi)
             ELSE bisect_IsBisectLeft(a, x, lo, mid)

RECURSIVE bisect(_, _, _, _)
\* bisect.bisect(a, x) (that is bisect_right), from lo = 0 and hi = len(a).
\* x is the quotient x.num / x.den of two integers, which the float holds
\* exactly; a[mid] of the source is a[mid + 1] here.
bisect(a, x, lo, hi) ==
    IF ~(lo < hi) THEN lo
    ELSE LET mid == (lo + hi) \div 2
         IN  IF x.num < a[mid + 1] * x.den
             THEN bisect(a, x, lo, mid)
             ELSE bisect(a, x, mid + 1, hi)

Min(a, b) == IF a <= b THEN a ELSE b

Max(a, b) == IF a >= b THEN a ELSE b

\* PerFlushReasonStats(): a dataclass and its defaults.
PerFlushReasonStats ==
    [num_flushes |-> 0,
     sizes_histogram |->
         [i \in 1 .. Len(FLUSHED_SIZES_HISTOGRAM_BUCKETS_MB) + 1 |-> 0],
     min_duration_ms |-> MAX_INT,
     max_duration_ms |-> 0,
     min_num_memtables |-> MAX_INT,
     max_num_memtables |-> 0,
     min_total_data_size_bytes |-> MAX_INT,
     max_total_data_size_bytes |-> 0]

\* One iteration of the loop of calc_cf_flushes_stats; stats is a function
\* from the flush reasons met so far.
flushes_stats_step(stats, events_pair) ==
    LET flush_reason == events_pair.flush_reason
        num_memtables == events_pair.num_memtables
        total_data_size_bytes == events_pair.total_data_size_bytes
        flush_duration_ms == IF events_pair.end_time # None
                             THEN get_duration_ms(events_pair) ELSE 0
        bucket_idx ==
            bisect(FLUSHED_SIZES_HISTOGRAM_BUCKETS_MB,
                   [num |-> total_data_size_bytes, den |-> 2^20],
                   0, Len(FLUSHED_SIZES_HISTOGRAM_BUCKETS_MB))
        stats1 == [r \in DOMAIN stats \cup {flush_reason} |->
                      IF r \in DOMAIN stats THEN stats[r]
                      ELSE PerFlushReasonStats]
        rs == stats1[flush_reason]
    IN  [stats1 EXCEPT ![flush_reason] =
            [num_flushes |-> rs.num_flushes + 1,
             sizes_histogram |->
                 [rs.sizes_histogram EXCEPT ![bucket_idx + 1] = @ + 1],
             min_duration_ms |-> Min(rs.min_duration_ms, flush_duration_ms),
             max_duration_ms |-> Max(rs.max_duration_ms, flush_duration_ms),
             min_num_memtables |-> Min(rs.min_num_memtables, num_memtables),
             max_num_memtables |-> Max(rs.max_num_memtables, num_memtables),
             min_total_data_size_bytes |->
                 Min(rs.min_total_data_size_bytes, total_data_size_bytes),
             max_total_data_size_bytes |->
                 Min(rs.max_total_data_size_bytes, total_data_size_bytes)]]

RECURSIVE flushes_stats_loop(_, _)
flushes_stats_loop(stats, cf_flush_events) ==
    IF cf_flush_events = <<>> THEN stats
    ELSE flushes_stats_loop(flushes_stats_step(stats, Head(cf_flush_events)),
                            Tail(cf_flush_events))

\* calc_cf_flushes_stats(cf_name, events_mngr) for the flush pairs of the
\* CF: {} when there are none.
calc_cf_flushes_stats(cf_flush_events) ==
    flushes_stats_loop(<<>>, cf_flush_events)

StartFlushes ==
    /\ flush_events = <<>>
    /\ flush_call = [called |-> FALSE, stats |-> <<>>]

\* The log has one more flush of the CF.
AddFlushEvents ==
    /\ Len(flush_events) < MaxFlushes
    /\ \E events_pair \in FlushEventsPairs(Len(flush_events)) :
           flush_events' = Append(flush_events, events_pair)
    /\ flush_call' = [called |-> FALSE, stats |-> <<>>]
    /\ UNCHANGED allButFlushes

CalcCfFlushesStats ==
    /\ ~flush_call.called
    /\ flush_call' =
           [called |-> TRUE, stats |-> calc_cf_flushes_stats(flush_events)]
    /\ UNCHANGED flush_events
    /\ UNCHANGED allButFlushes

NextFlushes == AddFlushEvents \/ CalcCfFlushesStats

(***************************************************************************)
(* The DB size of the derived metrics (calc_utils.py)                      *)
(***************************************************************************)

\* The entries of all the CFs of the first snapshot of level entries; an
\* empty dict when there is none.
get_first_level_entry_all_cfs(mngr) ==
    IF mngr.level_entries.order = <<>> THEN <<>>
    ELSE mngr.level_entries.info[mngr.level_entries.order[1]]

\* The same for the last snapshot.
get_last_level_entry_all_cfs(mngr) ==
    IF mngr.level_entries.order = <<>> THEN <<>>
    ELSE mngr.level_entries.info[
             mngr.level_entries.order[Len(mngr.level_entries.order)]]

\* CompactionStatsMngr.get_sum_value(cf_entry, LevelFields.SIZE_BYTES)
get_sum_value(cf_entry) == cf_entry.SUM.size_bytes

RECURSIVE sum_size_bytes(_, _)
\* The loop "for cf_name, cf_entry in entry_all_cfs.items()" over the CFs
\* that are left: size_bytes += int(get_sum_value(cf_entry, SIZE_BYTES)).
sum_size_bytes(entry_all_cfs, cf_names) ==
    IF cf_names = {} THEN 0
    ELSE LET cf_name == CHOOSE c \in cf_names : TRUE
         IN  get_sum_value(entry_all_cfs[cf_name])
             + sum_size_bytes(entry_all_cfs, cf_names \ {cf_name})

\* get_db_size_bytes_at_start: the function ends after its loop, without a
\* return statement, and gives None.
get_db_size_bytes_at_start(compaction_stats_mngr) ==
    LET first_entry_all_cfs ==
            get_first_level_entry_all_cfs(compaction_stats_mngr)
    IN  IF DOMAIN first_entry_all_cfs = {} THEN 0
        ELSE None

get_db_size_bytes_at_end(compaction_stats_mngr) ==
    LET last_entry_all_cfs ==
            get_last_level_entry_all_cfs(compaction_stats_mngr)
    IN  IF DOMAIN last_entry_all_cfs = {} THEN 0
        ELSE sum_size_bytes(last_entry_all_cfs, DOMAIN last_entry_all_cfs)

StartDbSize ==
    db_size_call = [count |-> None, at_start |-> 0, at_end |-> 0]

\* The report asks for the two sizes after the stats dumps read so far.
GetDbSizeBytes ==
    /\ compaction_call.raised = "none"
    /\ db_size_call.count # compaction_call.count
    /\ db_size_call' =
           [count |-> compaction_call.count,
            at_start |-> get_db_size_bytes_at_start(compaction_mngr),
            at_end |-> get_db_size_bytes_at_end(compaction_mngr)]
    /\ UNCHANGED allButDbSize

NextDbSize == AddCompactionLines \/ GetDbSizeBytes

(***************************************************************************)
(* The output folder of a run (log_parser.py)                              *)
(*                                                                         *)
(* A name in the parent folder is its prefix and the characters after it;  *)
(* a character is a digit 0 .. 9, or NotADigit for any other character.    *)
(***************************************************************************)

\* The number of runs of the parser on one parent folder.
MaxPrepareCalls == 2

OUTPUT_SUB_FOLDER_PREFIX == "log_parser_"

NotADigit == 10

\* The names that a parent folder may hold before a run.
SiblingNames ==
    {[prefix |-> OUTPUT_SUB_FOLDER_PREFIX, rest |-> <<0, 0, 0, 0>>],
     [prefix |-> OUTPUT_SUB_FOLDER_PREFIX, rest |-> <<0, 0, 0, 1>>],
     [prefix |-> OUTPUT_SUB_FOLDER_PREFIX, rest |-> <<0, 0, 1, 7>>],
     [prefix |-> OUTPUT_SUB_FOLDER_PREFIX, rest |-> <<9, 9, 9, 8>>],
     [prefix |-> OUTPUT_SUB_FOLDER_PREFIX, rest |-> <<9, 9, 9, 9>>],
     [prefix |-> OUTPUT_SUB_FOLDER_PREFIX, rest |-> <<4, 2>>],
     [prefix |-> OUTPUT_SUB_FOLDER_PREFIX, rest |-> <<1, 2, 3, 4, 5>>],
     [prefix |-> OUTPUT_SUB_FOLDER_PREFIX, rest |-> <<0, 5, NotADigit, 0>>],
     [prefix |-> "other_", rest |-> <<9, 9, 9, 9>>]}

\* name.isnumeric(), for the characters of the model.
isnumeric(name) ==
    /\ name # <<>>
    /\ \A i \in DOMAIN name : name[i] # NotADigit

RECURSIVE int(_)
\* int(name) of a string of decimal digits.
int(name) ==
    IF name = <<>> THEN 0
    ELSE 10 * int(SubSeq(name, 1, Len(name) - 1)) + name[Len(name)]

\* f"{num:04}": the decimal digits of num, padded with zeros to 4.
format_04(num) ==
    IF num < 10000
    THEN <<(num \div 1000) % 10, (num \div 100) % 10,
           (num \div 10) % 10, num % 10>>
    ELSE <<num \div 10000, (num \div 1000) % 10, (num \div 100) % 10,
           (num \div 10) % 10, num % 10>>

\* The numbers of the names that the loop over iterdir() takes.
sub_folder_nums(names) ==
    {int(n.rest) : n \in {f \in names :
                            /\ f.prefix = OUTPUT_SUB_FOLDER_PREFIX
                            /\ isnumeric(f.rest)
                            /\ Len(f.rest) = 4}}

\* prepare_output_folder: the name of the folder that it makes. The parent
\* folder is made when it does not exist, which leaves it empty.
prepare_output_folder(names) ==
    LET nums == sub_folder_nums(names)
        largest_num0 == IF nums = {} THEN 0 ELSE SetMax(nums \cup {0})
        largest_num == IF largest_num0 = 9999 THEN 1 ELSE largest_num0
    IN  [prefix |-> "log_parser_", rest |-> format_04(largest_num + 1)]

NoOutputFolder == [prefix |-> "", rest |-> <<>>]

StartFolder ==
    /\ folder_names = {}
    /\ folder_call = [count |-> 0, output_folder |-> NoOutputFolder]

\* Something else puts an entry into the parent folder.
AddSiblingName ==
    /\ \E name \in SiblingNames \ folder_names :
           folder_names' = folder_names \cup {name}
    /\ UNCHANGED folder_call
    /\ UNCHANGED allButFolder

\* One run: shutil.rmtree and os.makedirs leave the folder of the returned
\* name in the parent folder.
PrepareOutputFolder ==
    /\ folder_call.count < MaxPrepareCalls
    /\ LET output_folder == prepare_output_folder(folder_names)
       IN  /\ folder_names' = folder_names \cup {output_folder}
           /\ folder_call' = [count |-> folder_call.count + 1,
                              output_folder |-> output_folder]
    /\ UNCHANGED allButFolder

NextFolder == AddSiblingName \/ PrepareOutputFolder

(***************************************************************************)
(* stats_mngr.py: StatsMngr.try_adding_entries                             *)
(*                                                                         *)
(* A line of the DB stats entry is modelled by what the is_start_line      *)
(* tests of the sub-managers find in it, and by the CF name in it.         *)
(***************************************************************************)

\* Longest DB stats entry, in lines.
MaxDbStatsLines == 4

\* Python's None for next_stats_type.
NoStatsType == "None"

StatsLine(kind, cf_name) == [kind |-> kind, cf_name |-> cf_name]

DbStatsLineKinds ==
    {StatsLine("db_stats", NoneName),         \* "** DB Stats **"
     StatsLine("compaction", "default"),      \* "** Compaction Stats [cf] **"
     StatsLine("compaction", "cf1"),
     StatsLine("blob", NoneName),             \* "Blob file count: ..."
     StatsLine("block_cache", NoneName),      \* "Block cache ... capacity:"
     StatsLine("cf_file_histogram", "default"),
     StatsLine("cf_file_histogram", "cf1"),   \* "** File Read Latency .."
     StatsLine("uptime", NoneName),           \* "Uptime(secs): .. total, .."
     StatsLine("other", NoneName),            \* any other text
     StatsLine("empty", NoneName)}            \* an empty line

RECURSIVE remove_empty_lines_at_start(_)
remove_empty_lines_at_start(lines) ==
    IF lines # <<>> /\ Head(lines).kind = "empty"
    THEN remove_empty_lines_at_start(Tail(lines))
    ELSE lines

RECURSIVE find_next_start_line_in_db_stats_FromStartLine(_, _, _)
\* find_next_start_line_in_db_stats with line_idx = start_line_idx.
find_next_start_line_in_db_stats_FromStartLine(db_stats_lines, start_line_idx, curr_stats_type) ==
    LET line_idx == start_line_idx
    IN  IF ~(line_idx < Len(db_stats_lines))
        THEN [line_idx |-> line_idx, next_stats_type |-> NoStatsType,
              cf_name |-> NoneName]
        ELSE
        LET line == db_stats_lines[line_idx + 1]
        IN  CASE line.kind = "compaction" ->
                     [line_idx |-> line_idx, next_stats_type |-> "COMPACTION",
                      cf_name |-> line.cf_name]
              [] line.kind = "blob" ->
                     [line_idx |-> line_idx, next_stats_type |-> "BLOB",
                      cf_name |-> NoneName]
              [] line.kind = "block_cache" ->
                     [line_idx |-> line_idx,
                      next_stats_type |-> "BLOCK_CACHE", cf_name |-> NoneName]
              [] line.kind = "cf_file_histogram" ->
                     [line_idx |-> line_idx,
                      next_stats_type |-> "CF_FILE_HISTOGRAM",
                      cf_name |-> line.cf_name]
              [] line.kind = "uptime" /\ curr_stats_type # "DB_WIDE" ->
                     [line_idx |-> line_idx, next_stats_type |-> "CF_NO_FILE",
                      cf_name |-> NoneName]
              [] OTHER ->
                     find_next_start_line_in_db_stats_FromStartLine(
                         db_stats_lines, start_line_idx + 1, curr_stats_type)

RECURSIVE find_next_start_line_in_db_stats(_, _, _)
\* [line_idx, next_stats_type, cf_name]: the while loop from
\* line_idx = start_line_idx + 1; the line at index line_idx of the source
\* is db_stats_lines[line_idx + 1] here.
find_next_start_line_in_db_stats(db_stats_lines, start_line_idx, curr_stats_type) ==
    LET line_idx == start_line_idx + 1
    IN  IF ~(line_idx < Len(db_stats_lines))
        THEN [line_idx |-> line_idx, next_stats_type |-> NoStatsType,
              cf_name |-> NoneName]
        ELSE
        LET line == db_stats_lines[line_idx + 1]
        IN  CASE line.kind = "compaction" ->
                     [line_idx |-> line_idx, next_stats_type |-> "COMPACTION",
                      cf_name |-> line.cf_name]
              [] line.kind = "blob" ->
                     [line_idx |-> line_idx, next_stats_type |-> "BLOB",
                      cf_name |-> NoneName]
              [] line.kind = "block_cache" ->
                     [line_idx |-> line_idx,
                      next_stats_type |-> "BLOCK_CACHE", cf_name |-> NoneName]
              [] line.kind = "cf_file_histogram" ->
                     [line_idx |-> line_idx,
                      next_stats_type |-> "CF_FILE_HISTOGRAM",
                      cf_name |-> line.cf_name]
              [] line.kind = "uptime" /\ curr_stats_type # "DB_WIDE" ->
                     [line_idx |-> line_idx, next_stats_type |-> "CF_NO_FILE",
                      cf_name |-> NoneName]
              [] OTHER ->
                     find_next_start_line_in_db_stats(
                         db_stats_lines, line_idx, curr_stats_type)

\* The locals before the loop of try_adding_entries.
DbStatsScan(status) ==
    [status |-> status, line_idx |-> 0, stats_type |-> "DB_WIDE",
     curr_cf_name |-> NO_COL_FAMILY, cf_names_found |-> {}]

StartDbStats ==
    /\ dbs_lines = <<>>
    /\ dbs_scan = DbStatsScan("not called")
    /\ dbs_trace = <<>>

\* try_adding_entries up to its loop, for a "DUMPING STATS" entry that is
\* followed by the DB stats entry with the given lines.
TryAddingEntries ==
    /\ dbs_scan.status = "not called"
    /\ \E n \in 0 .. MaxDbStatsLines :
       \E msg_lines \in [1 .. n -> DbStatsLineKinds] :
           LET lines == remove_empty_lines_at_start(msg_lines)
           IN  /\ dbs_lines' = lines
               /\ dbs_scan' =
                      DbStatsScan(
                          IF ~(Len(lines) > 0) THEN "AssertionError"
                          ELSE IF lines[1].kind # "db_stats"
                          THEN "AssertionError"
                          ELSE "in loop")
    /\ UNCHANGED dbs_trace
    /\ UNCHANGED allButDbStats

\* One iteration of the loop "while line_idx < len(dbs_lines)". The
\* sub-manager called by parse_next_db_stats_entry_lines is recorded in the
\* trace; what it raises is caught and logged there. The loop ends, and
\* try_adding_entries returns, when the lines are exhausted.
DbStatsIteration ==
    /\ dbs_scan.status = "in loop"
    /\ dbs_scan.line_idx < Len(dbs_lines)
    /\ LET line_idx == dbs_scan.line_idx
           stats_type == dbs_scan.stats_type
           next == find_next_start_line_in_db_stats(dbs_lines, line_idx,
                                                    stats_type)
           next_line_num == next.line_idx
           curr_cf_name == IF next.cf_name # NoneName THEN next.cf_name
                           ELSE dbs_scan.curr_cf_name
           cf_names_found ==
               IF next.cf_name # NoneName /\ next.cf_name # NO_COL_FAMILY
               THEN dbs_scan.cf_names_found \cup {curr_cf_name}
               ELSE dbs_scan.cf_names_found
       IN  IF ~(next_line_num > line_idx)
           THEN /\ dbs_scan' =
                       [dbs_scan EXCEPT
                           !.status = "AssertionError: parsing must progress"]
                /\ UNCHANGED dbs_trace
           ELSE /\ dbs_trace' =
                       Append(dbs_trace,
                              [stats_type |-> stats_type,
                               cf_name |-> curr_cf_name,
                               start_line_idx |-> line_idx,
                               end_line_idx |-> next_line_num])
                /\ dbs_scan' =
                       [status |-> IF next_line_num < Len(dbs_lines)
                                   THEN "in loop" ELSE "returned",
                        line_idx |-> next_line_num,
                        stats_type |-> next.next_stats_type,
                        curr_cf_name |-> curr_cf_name,
                        cf_names_found |-> cf_names_found]
    /\ UNCHANGED dbs_lines
    /\ UNCHANGED allButDbStats

NextDbStats == TryAddingEntries \/ DbStatsIteration
(***************************************************************************)
(* The specifications: every component starts as constructed.              *)
(***************************************************************************)

Init ==
    /\ StartFiles /\ StartEvents /\ StartStats /\ StartTok /\ StartRest
    /\ StartCfs /\ StartNames /\ StartInstances
    /\ StartBaseline /\ StartCompaction /\ StartMeta
    /\ StartFilter /\ StartFlushes /\ StartDbSize
    /\ StartFolder /\ StartDbStats

SpecFiles == Init /\ [][NextFiles]_vars

SpecEvents == Init /\ [][NextEvents]_vars

SpecStats == Init /\ [][NextStats]_vars

SpecCsv == Init /\ [][NextCsv]_vars

SpecTok == Init /\ [][NextTok]_vars

SpecRest == Init /\ [][NextRest]_vars

SpecCfs == Init /\ [][NextCfs]_vars

SpecNames == Init /\ [][NextNames]_vars

SpecInstances == Init /\ [][NextInstances]_vars

SpecBaseline == Init /\ [][NextBaseline]_vars

SpecCompaction == Init /\ [][NextCompaction]_vars

SpecMeta == Init /\ [][NextMeta]_vars

SpecFilter == Init /\ [][NextFilter]_vars

SpecFlushes == Init /\ [][NextFlushes]_vars

SpecDbSize == Init /\ [][NextDbSize]_vars

SpecFolder == Init /\ [][NextFolder]_vars

SpecDbStats == Init /\ [][NextDbStats]_vars
(***************************************************************************)
(* Claims about the SST file lifecycle monitor (SpecFiles)                 *)
(***************************************************************************)

RECURSIVE SumOfField(_, _, _)
\* The sum of files[n][field] over the file numbers n of S.
SumOfField(files, S, field) ==
    IF S = {} THEN 0
    ELSE LET n == CHOOSE x \in S : TRUE
         IN  files[n][field] + SumOfField(files, S \ {n}, field)

\* C1: after every prefix of creation / deletion events the live totals are
\* the sums of the index and filter bytes of exactly the files that are alive.
C1_LiveTotalsAreSumsOverAliveFiles ==
    LET alive == get_all_live_files(monitor)
        stats == monitor.live_files_stats
    IN  /\ stats.total_live_indexes_sizes_bytes =
               SumOfField(monitor.files, alive, "index_size_bytes")
        /\ stats.total_live_filters_sizes_bytes =
               SumOfField(monitor.files, alive, "filter_size_bytes")

\* A file with index and filter bytes is alive and another one was deleted.
C1_Witness ==
    \E a, d \in DOMAIN monitor.files :
        /\ is_alive(monitor.files[a])
        /\ monitor.files[a].index_size_bytes > 0
        /\ monitor.files[a].filter_size_bytes > 0
        /\ ~is_alive(monitor.files[d])
        /\ monitor.files[d].index_size_bytes > 0
        /\ monitor.files[d].filter_size_bytes > 0

\* The three anomalies: a creation of a known file number, a deletion of an
\* unknown file number, a deletion of a file that was deleted already.
AnomalousEvent(mon, call) ==
    \/ /\ call.type = TABLE_FILE_CREATION
       /\ call.file_number \in DOMAIN mon.files
    \/ /\ call.type = TABLE_FILE_DELETION
       /\ call.file_number \notin DOMAIN mon.files
    \/ /\ call.type = TABLE_FILE_DELETION
       /\ call.file_number \in DOMAIN mon.files
       /\ ~is_alive(mon.files[call.file_number])

\* C2: new_event returns False, raises nothing and leaves the monitor as it
\* was on each of the three anomalies; so a file that has a deletion time
\* keeps its record, deletion time included, for ever.
C2_AnomalousEventChangesNothing ==
    [][ /\ AnomalousEvent(monitor, fm_call') =>
               (fm_ret' = "False" /\ monitor' = monitor)
        /\ \A n \in DOMAIN monitor.files :
               /\ n \in DOMAIN monitor'.files
               /\ ~is_alive(monitor.files[n]) =>
                      monitor'.files[n] = monitor.files[n]
      ]_vars

\* A deletion of an already deleted file was just refused.
C2_Witness ==
    /\ fm_call.type = TABLE_FILE_DELETION
    /\ fm_call.file_number \in DOMAIN monitor.files
    /\ ~is_alive(monitor.files[fm_call.file_number])
    /\ fm_ret = "False"
    /\ \E n \in DOMAIN monitor.files : is_alive(monitor.files[n])

(***************************************************************************)
(* Claims about the events manager (SpecEvents)                            *)
(***************************************************************************)

\* The events of list whose CF is cf_name.
OfCf(list, cf_name) == SelectSeq(list, LAMBDA e : e.dict["cf_name"] = cf_name)

\* The events of list whose type is event_type.
OfType(list, event_type) ==
    SelectSeq(list, LAMBDA e : e.dict["event"] = event_type)

\* list2 holds the elements of list1, each as often as list1 does.
SameElements(list1, list2) ==
    /\ Len(list1) = Len(list2)
    /\ \A i \in 1 .. Len(list1) :
           Cardinality({j \in 1 .. Len(list1) : list1[j] = list1[i]}) =
           Cardinality({j \in 1 .. Len(list2) : list2[j] = list1[i]})

NonDecreasingInTime(list) ==
    \A i, j \in 1 .. Len(list) :
        i < j => get_time(list[i]) <= get_time(list[j])

StepEvent == Event(em_entry')

\* This step is a call of try_adding_entry with a valid JSON event whose job
\* id has a cached preamble.
EventOfCachedJob ==
    /\ em_count' = em_count + 1
    /\ is_an_event_entry(em_entry')
    /\ is_valid(StepEvent)
    /\ has_key(StepEvent, "job")
    /\ StepEvent.dict["job"] \in DOMAIN events_mngr.preambles

\* The last event stored under cf_name and event_type after this step is the
\* event of this step, and nothing else was stored.
StoredUnder(cf_name, event_type) ==
    /\ cf_name \in DOMAIN events_mngr'.events
    /\ event_type \in DOMAIN events_mngr'.events[cf_name].lists
    /\ LET list == events_mngr'.events[cf_name].lists[event_type]
           event == list[Len(list)]
       IN  /\ event.dict["cf_name"] = cf_name
           /\ event.dict["event"] = event_type
           /\ event.dict["time_micros"] = StepEvent.dict["time_micros"]
           /\ event.dict["job"] = StepEvent.dict["job"]
    /\ em_accepted' = Append(em_accepted,
                             [StepEvent EXCEPT !.dict["cf_name"] = cf_name])

PreambleIsConsumedByItsEvent ==
    EventOfCachedJob =>
        LET job_id == StepEvent.dict["job"]
            T == events_mngr.preambles[job_id][1]
            c == events_mngr.preambles[job_id][2]
            own_cf == StepEvent.dict["cf_name"]
        IN  IF StepEvent.dict["event"] = T
            THEN /\ StoredUnder(c, T)
                 /\ em_ret' = [result |-> TRUE, cf_name |-> c,
                               raised |-> "none"]
                 /\ job_id \notin DOMAIN events_mngr'.preambles
            ELSE /\ StoredUnder(own_cf, StepEvent.dict["event"])
                 /\ em_ret'.result /\ em_ret'.raised = "none"
                 /\ em_ret'.cf_name =
                        (IF own_cf = NO_COL_FAMILY THEN NoneName ELSE own_cf)
                 /\ events_mngr'.preambles = events_mngr.preambles

\* C12: when a preamble of job j, CF c and start type T is cached, a JSON
\* event of job j and type T is stored under c, try_adding_entry returns
\* (True, c) and the preamble of j is removed; an event of job j with another
\* type is stored with its own CF and the preamble of j stays.
C12_PreambleGivesItsCfToTheEventOfItsJob ==
    [][PreambleIsConsumedByItsEvent]_vars

\* A preamble of job 1 was cached, an event of job 1 with another type left
\* it, and the event of its type, which names no CF, is stored under cf1.
C12_Witness ==
    /\ em_count = 3
    /\ is_an_event_entry(em_entry)
    /\ "cf_name" \notin DOMAIN em_entry.json
    /\ em_ret = [result |-> TRUE, cf_name |-> "cf1", raised |-> "none"]
    /\ events_mngr.preambles = <<>>
    /\ NO_COL_FAMILY \in DOMAIN events_mngr.events
    /\ Len(em_accepted) = 2
    /\ em_accepted[1].dict["job"] = 1
    /\ em_accepted[1].dict["event"] # em_accepted[2].dict["event"]

\* This step is a call of try_adding_entry with an entry that carries the
\* event marker and whose JSON does not decode or has no event type.
BadlyFormedEvent ==
    /\ em_count' = em_count + 1
    /\ is_an_event_entry(em_entry')
    /\ (~em_entry'.json_ok \/ "event" \notin DOMAIN em_entry'.json)

BadlyFormedEventIsDiscarded ==
    BadlyFormedEvent =>
        /\ em_ret' = [result |-> TRUE, cf_name |-> NoneName,
                      raised |-> "none"]
        /\ events_mngr'.events = events_mngr.events
        /\ events_mngr'.preambles = events_mngr.preambles
        /\ em_accepted' = em_accepted

\* C13: for an entry with the event marker whose JSON does not decode or
\* has no event type, try_adding_entry raises nothing, returns (True, None)
\* and leaves the stored events and the cached preambles as they were.
C13_BadlyFormedEventChangesNothing == [][BadlyFormedEventIsDiscarded]_vars

\* An undecodable event was handed to a manager that holds an event and a
\* cached preamble.
C13_Witness ==
    /\ is_an_event_entry(em_entry)
    /\ ~em_entry.json_ok
    /\ em_ret = [result |-> TRUE, cf_name |-> NoneName, raised |-> "none"]
    /\ em_accepted # <<>>
    /\ events_mngr.preambles # <<>>
(***************************************************************************)
(* Claims about the counters and histograms (SpecStats, SpecCsv)           *)
(***************************************************************************)

NonDecreasing(entries, field) ==
    \A i, j \in DOMAIN entries : i <= j => entries[i][field] <= entries[j][field]

\* The stored series are monotonic.
StoredSeriesAreMonotonic ==
    /\ \A n \in DOMAIN stats_mngr.counters.lists :
           NonDecreasing(stats_mngr.counters.lists[n], "value")
    /\ \A n \in DOMAIN stats_mngr.histograms.lists :
           /\ NonDecreasing(stats_mngr.histograms.lists[n], "Count")
           /\ NonDecreasing(stats_mngr.histograms.lists[n], "Sum")

\* A line of the entry just handled that is lower than the last stored
\* entry of its name.
IsRegression(mngr, line) ==
    \/ /\ line.kind = "counter"
       /\ get_counter_entries(mngr, line.name) # <<>>
       /\ line.value < get_last_counter_value(mngr, line.name)
    \/ /\ line.kind = "histogram"
       /\ line.name \in DOMAIN mngr.histograms.lists
       /\ mngr.histograms.lists[line.name] # <<>>
       /\ LET entries == mngr.histograms.lists[line.name]
              last == entries[Len(entries)]
          IN  line.count < last.Count \/ line.total < last.Sum

\* add_entry leaves alone the series of every regressing line.
RegressionIsDropped ==
    stats_count' = stats_count + 1 =>
        \A i \in DOMAIN stats_entry'.lines :
            LET line == stats_entry'.lines[i]
            IN  IsRegression(stats_mngr, line) =>
                    IF line.kind = "counter"
                    THEN /\ stats_mngr'.counters.lists[line.name] =
                                stats_mngr.counters.lists[line.name]
                         /\ get_last_counter_value(stats_mngr', line.name) =
                                get_last_counter_value(stats_mngr, line.name)
                    ELSE stats_mngr'.histograms.lists[line.name] =
                             stats_mngr.histograms.lists[line.name]

\* C4: after any sequence of add_entry calls the stored values of every
\* counter, and the stored Count and Sum of every histogram, are
\* non-decreasing in storage order; a line lower than the last stored entry
\* of its name leaves the stored series as it was, so get_last_counter_value
\* still returns the last accepted value.
C4_StoredSeriesNeverDecrease ==
    [](StoredSeriesAreMonotonic) /\ [][RegressionIsDropped]_vars

\* The inputs 0, 1, 0 of a counter left the history [0, 1], last value 1;
\* a histogram line was dropped as well.
C4_Witness ==
    /\ stats_count = 3
    /\ stats_ret = "none"
    /\ "counter1" \in DOMAIN stats_mngr.counters.lists
    /\ Len(stats_mngr.counters.lists["counter1"]) = 2
    /\ stats_mngr.counters.lists["counter1"][1].value = 0
    /\ stats_mngr.counters.lists["counter1"][2].value = 1
    /\ stats_mngr.counters.lists["counter1"][2].time = 1
    /\ get_last_counter_value(stats_mngr, "counter1") = 1
    /\ Len(stats_entry.lines) = 2
    /\ stats_entry.lines[1] = CounterLine("counter1", 0)
    /\ stats_entry.lines[2].kind = "histogram"
    /\ stats_entry.lines[2] = HistogramLine("histogram1", 0, 0)
    /\ "histogram1" \in DOMAIN stats_mngr.histograms.lists
    /\ Len(stats_mngr.histograms.lists["histogram1"]) >= 1
    /\ stats_mngr.histograms.lists["histogram1"][1].Count = 1

\* The values that a counter stores for exactly one time.
SamplesAt(mngr, counter_name, time) ==
    {mngr.counters.lists[counter_name][i].value :
        i \in {j \in DOMAIN mngr.counters.lists[counter_name] :
                  mngr.counters.lists[counter_name][j].time = time}}

\* C5: for every counters state reachable through add_entry,
\* get_counters_csv completes without error, has one row for every time, and
\* in the row of time t the column of each included counter holds the value
\* that the counter stores for exactly t, or 0 when it has no sample at t.
C5_CsvRowsHoldTheSamplesOfTheirTime ==
    csv_out.kind # "not run" =>
        /\ csv_out.kind # "AssertionError"
        /\ csv_out.kind = "csv" =>
               /\ [r \in DOMAIN csv_out.rows |-> csv_out.rows[r].time] =
                      get_counters_times(stats_mngr)
               /\ \A r \in DOMAIN csv_out.rows, k \in DOMAIN csv_out.header :
                      LET samples == SamplesAt(stats_mngr, csv_out.header[k],
                                               csv_out.rows[r].time)
                          value == csv_out.rows[r].values[k]
                      IN  IF samples = {} THEN value = 0
                          ELSE value \in samples


\* The counters that have a sample greater than 0.
CountersWithNonZeroSample(mngr) ==
    {n \in DOMAIN mngr.counters.lists :
        \E i \in DOMAIN mngr.counters.lists[n] :
            mngr.counters.lists[n][i].value > 0}

\* The times of the samples of those counters.
TimesOfIncludedCounters(mngr) ==
    UNION {{mngr.counters.lists[n][i].time :
               i \in DOMAIN mngr.counters.lists[n]} :
           n \in CountersWithNonZeroSample(mngr)}

\* C20: the counters CSV has one row for every time that occurs among the
\* samples of the counters with a non-zero sample, and for no other time;
\* its rows are in ascending order of time, its header lists those counters,
\* and there is no CSV when no counter has a non-zero sample.
C20_CsvHasOneRowForEveryTimeOfAnIncludedCounter ==
    csv_out.kind # "not run" =>
        /\ csv_out.kind \in {"None", "csv"}
        /\ csv_out.kind = "None" <=> CountersWithNonZeroSample(stats_mngr) = {}
        /\ csv_out.kind = "csv" =>
               /\ {csv_out.header[k] : k \in DOMAIN csv_out.header} =
                      CountersWithNonZeroSample(stats_mngr)
               /\ [r \in DOMAIN csv_out.rows |-> csv_out.rows[r].time] =
                      SortedSeq(TimesOfIncludedCounters(stats_mngr))

\* The Count and the Sum that the deltas of the entry at index i are taken
\* from: those of the entry stored right before it, 0 for the first one.
PrecedingStored(entries, i, field) ==
    IF i = 1 THEN 0 ELSE entries[i - 1][field]

\* C21 (as amended): for every histogram name, the 'Interval Count' and the
\* 'Interval Sum' of each stored entry equal its Count and Sum minus the
\* Count and Sum of the entry stored immediately before it for that name;
\* the first stored entry of a name has nothing before it, and its two
\* intervals equal its own Count and Sum.
C21_IntervalsAreDeltasFromThePrecedingStoredEntry ==
    \A n \in DOMAIN stats_mngr.histograms.lists :
        LET entries == stats_mngr.histograms.lists[n]
        IN  \A i \in DOMAIN entries :
                /\ entries[i].IntervalCount =
                       entries[i].Count - PrecedingStored(entries, i, "Count")
                /\ entries[i].IntervalSum =
                       entries[i].Sum - PrecedingStored(entries, i, "Sum")

\* Three entries are stored for a histogram, the first one with Count 1 and
\* Sum 1 (intervals 1 and 1), the last one with the intervals 0 and 0 after
\* an equal entry.
C21_Witness ==
    /\ "histogram1" \in DOMAIN stats_mngr.histograms.lists
    /\ LET entries == stats_mngr.histograms.lists["histogram1"]
       IN  /\ Len(entries) = 3
           /\ entries[1].Count = 1 /\ entries[1].Sum = 1
           /\ entries[1].IntervalCount = 1 /\ entries[1].IntervalSum = 1
           /\ entries[3].Count = 1 /\ entries[3].IntervalCount = 0
           /\ entries[3].IntervalSum = 0

\* C21 as stated: the intervals are the deltas from the preceding stored
\* entry, and both are 0 in the first stored entry of a name.
C21_FirstStoredEntryHasZeroIntervals ==
    \A n \in DOMAIN stats_mngr.histograms.lists :
        LET entries == stats_mngr.histograms.lists[n]
        IN  \A i \in DOMAIN entries :
                IF i = 1
                THEN entries[i].IntervalCount = 0 /\ entries[i].IntervalSum = 0
                ELSE /\ entries[i].IntervalCount =
                            entries[i].Count - entries[i - 1].Count
                     /\ entries[i].IntervalSum =
                            entries[i].Sum - entries[i - 1].Sum

\* C22: every well-formed histogram line is handled without raising, and
\* the Average of every stored entry is Sum/Count rounded to two decimals
\* when Count > 0 and 0.00 when Count = 0, whatever the Count and the Sum
\* (a Count of 0 with a Sum above 0 included).
C22_HistogramLineIsStoredWithItsAverage ==
    /\ stats_ret = "none"
    /\ \A n \in DOMAIN stats_mngr.histograms.lists :
           LET entries == stats_mngr.histograms.lists[n]
           IN  \A i \in DOMAIN entries :
                   entries[i].Average =
                       IF entries[i].Count > 0
                       THEN Average(entries[i].Sum, entries[i].Count)
                       ELSE 0
(***************************************************************************)
(* Claims about the compaction stats (SpecCompaction)                      *)
(***************************************************************************)

\* The snapshot stored for the time and the CF, or <<>> when there is none.
Snapshot(mngr, time, cf_name) ==
    IF time \in DOMAIN mngr.level_entries.info
       /\ cf_name \in DOMAIN mngr.level_entries.info[time]
    THEN mngr.level_entries.info[time][cf_name]
    ELSE <<>>

\* This step is a call of add_lines that stores a block in level form.
StoresLevelBlock ==
    /\ compaction_call'.count = compaction_call.count + 1
    /\ compaction_call'.raised = "none"
    /\ compaction_call'.block.form = "level"

LevelBlockReplacesItsSnapshotOnly ==
    StoresLevelBlock =>
        LET t == compaction_call'.time
            c == compaction_call'.cf_name
        IN  /\ Snapshot(compaction_mngr', t, c) =
                   NewLevelEntry(compaction_call'.block)
            /\ \A time \in DumpTimes, cf_name \in CompactionCfNames :
                   <<time, cf_name>> # <<t, c>> =>
                       Snapshot(compaction_mngr', time, cf_name) =
                       Snapshot(compaction_mngr, time, cf_name)
            /\ \E i \in DOMAIN get_cf_level_entries(compaction_mngr', c, 1) :
                   get_cf_level_entries(compaction_mngr', c, 1)[i].time = t

\* C14: when add_lines stores a block in level form for the CF c at the
\* time t, the snapshot of (t, c) becomes the block and the snapshots of
\* the other CFs at t and of all CFs at other times stay as they are, so
\* that get_cf_level_entries has the entry at t of every CF of one dump.
C14_LevelBlockLeavesOtherSnapshotsAlone ==
    [][LevelBlockReplacesItsSnapshotOnly]_vars
(***************************************************************************)
(* Claims about the tokenizer (SpecTok)                                    *)
(***************************************************************************)

\* Does building the entry raise on this line?
Raises(line) == line \in {"start_raises", "line_raises"}

\* The index (from 1) of the entry start that opens the entry of line i.
StartOf(lines, i) ==
    SetMax({j \in 1 .. i : is_entry_start(lines[j])})

\* The entries that the lines describe, in file order, without the entries
\* that have a line on which building them raises.
RECURSIVE ExpectedEntries(_, _)
ExpectedEntries(lines, i) ==
    IF i > Len(lines) THEN <<>>
    ELSE LET members == {k \in i .. Len(lines) : StartOf(lines, k) = i}
             next == i + Cardinality(members)
         IN  (IF \E k \in members : Raises(lines[k]) THEN <<>>
              ELSE <<[start_line_idx |-> i - 1,
                      num_lines |-> Cardinality(members)]>>)
             \o ExpectedEntries(lines, next)

\* C6: a parsing error raised while an entry is built is never propagated,
\* and the tokenizer returns every other entry of the file, in file order,
\* the last open entry included.
C6_ParsingErrorDiscardsOneEntryOnly ==
    /\ (\E i \in DOMAIN tok_lines : Raises(tok_lines[i])) =>
           tok_status \in {"running", "returned"}
    /\ tok_status = "returned" =>
           tok_state.log_entries = ExpectedEntries(tok_lines, 1)


\* The lines that are not empty, in file order.
NonEmptyLines(lines) == SelectSeq(lines, LAMBDA line : line # "empty")

\* The first line that is not empty is the start of an entry.
FirstNonEmptyLineIsEntryStart(lines) ==
    /\ NonEmptyLines(lines) # <<>>
    /\ is_entry_start(NonEmptyLines(lines)[1])

\* C17: parse_log_to_entries rejects the input as empty exactly when it has
\* no lines, rejects it as invalid exactly when its first non-empty line is
\* not the start of an entry, and returns a list of entries in every other
\* case.
C17_FileIsRejectedOnlyWhenEmptyOrInvalid ==
    /\ tok_status = "EmptyLogFile" <=>
           (tok_lines = <<>> /\ tok_status # "running")
    /\ tok_status = "InvalidLogFile" =>
           /\ NonEmptyLines(tok_lines) # <<>>
           /\ ~is_entry_start(NonEmptyLines(tok_lines)[1])
    /\ FirstNonEmptyLineIsEntryStart(tok_lines) =>
           tok_status \in {"running", "returned"}

\* The line handled by the step is not the start of an entry and meets no
\* open entry; the first line has passed the check before.
ContinuationLineMeetsNoEntry ==
    /\ Len(tok_lines') = Len(tok_lines) + 1
    /\ tok_lines # <<>>
    /\ is_entry_start(tok_lines[1])
    /\ ~is_entry_start(tok_lines'[Len(tok_lines')])
    /\ tok_state.new_entry = NoEntry

Sightings(kind) ==
    SelectSeq(meta_entries, LAMBDA e : e.find.kind = kind)

\* The value recorded for a kind.
Recorded(metadata, kind) ==
    CASE kind = "product_and_version" ->
             <<metadata.product_name, metadata.version>>
      [] kind = "git_hash" -> metadata.git_hash
      [] kind = "db_session_id" -> metadata.db_session_id

NotRecorded(kind) ==
    IF kind = "product_and_version" THEN <<NoneName, NoneName>> ELSE NoneName

MetaKinds == {"product_and_version", "git_hash", "db_session_id"}

\* What is recorded is what the first sighting holds, and the second
\* sighting of a kind has raised the parsing error.
FirstSightingsAreRecorded ==
    /\ \A kind \in MetaKinds :
           /\ Recorded(meta.metadata, kind) =
                  (IF Sightings(kind) = <<>> THEN NotRecorded(kind)
                   ELSE Sightings(kind)[1].find.value)
           /\ Len(Sightings(kind)) <= 2
           /\ Len(Sightings(kind)) = 2 =>
                  /\ meta.status = "ParsingError"
                  /\ meta_entries[Len(meta_entries)].find.kind = kind

RecordedIsNeverOverwritten ==
    \A kind \in MetaKinds :
        Recorded(meta.metadata, kind) # NotRecorded(kind) =>
            Recorded(meta'.metadata, kind) = Recorded(meta.metadata, kind)

\* C18: over the metadata region each of product/version, git hash and
\* session id is assigned at most once; a second sighting raises a parsing
\* error, and a recorded value is never overwritten.
C18_MetadataIsAssignedAtMostOnce ==
    [](FirstSightingsAreRecorded) /\ [][RecordedIsNeverOverwritten]_vars

\* A second git hash, different from the recorded one, was sighted after
\* the product and the version.
C18_Witness ==
    /\ meta.status = "ParsingError"
    /\ Len(meta_entries) = 3
    /\ meta.metadata.product_name = "RocksDB"
    /\ meta_entries[2].find.kind = "git_hash"
    /\ meta.metadata.git_hash = meta_entries[2].find.value
    /\ meta_entries[3].find.kind = "git_hash"
    /\ meta_entries[3].find.value # meta.metadata.git_hash

EndTimeIsSet == meta.status \in {"parse_rest_of_log", "constructed"}

EndTimeIsNotSetYet ==
    meta.status \in {"parse_metadata", "set_end_time", "InvalidLogFile"}

EndTimeIsSetOnce ==
    /\ meta.metadata.end_time # None =>
           meta'.metadata.end_time = meta.metadata.end_time
    /\ meta'.metadata.start_time = meta.metadata.start_time
           \/ meta_entries = <<>>

\* C19: for every log whose ParsedLog is constructed the end time is set
\* once, to the time of the last entry, and is not before the start time,
\* whatever the order of the times in the log.
C19_EndTimeIsSetOnceAndNotBeforeTheStart ==
    /\ [](/\ EndTimeIsSet =>
                /\ meta.metadata.end_time = meta.last_time
                /\ meta.metadata.start_time = meta_entries[1].time
                /\ meta.metadata.end_time >= meta.metadata.start_time
          /\ EndTimeIsNotSetYet => meta.metadata.end_time = None)
    /\ [][EndTimeIsSetOnce]_vars

\* A log is constructed whose times go up, down and up again.
C19_Witness ==
    /\ meta.status = "constructed"
    /\ Len(meta_entries) = 3
    /\ meta_entries[1].time < meta_entries[2].time
    /\ meta_entries[3].time < meta_entries[2].time
    /\ meta.metadata.end_time > meta.metadata.start_time
(***************************************************************************)
(* Claims about the main parsing loop (SpecRest)                           *)
(***************************************************************************)

\* C7: the cursor of parse_rest_of_log strictly increases on every
\* iteration of the loop and no iteration indexes past the last entry; the
\* iterations take the entries from the starting position of the cursor
\* on, each once, and the loop ends with the cursor equal to the number of
\* entries, also when the marker of a stats dump is the last entry.
C7_CursorIsMonotonicAndInBounds ==
    /\ \A i \in DOMAIN rest_trace :
           /\ rest_trace[i].raised # "IndexError"
           /\ rest_trace[i].raised = "none" =>
                  /\ rest_trace[i].to > rest_trace[i].from
                  /\ rest_trace[i].to <= Len(rest_entries)
           /\ i > 1 => rest_trace[i].from = rest_trace[i - 1].to
    /\ rest_status = "done" => parsed_log.entry_idx = Len(rest_entries)

(***************************************************************************)
(* Claims about the column-family registry (SpecCfs)                       *)
(***************************************************************************)

\* The step handles a lifetime line of this kind.
LifetimeStep(kind) == cfs_count' = cfs_count + 1 /\ cfs_entry'.kind = kind

\* C8: once get_cf_id gives an id for a column family (0 included), it
\* gives the same id after every later call; a Create or Recover line that
\* names the column family with another id is a parsing error.
C8_BoundIdIsNeverLost ==
    [][\A n \in DOMAIN cfs_metadata.info :
           get_cf_id(cfs_metadata, n) # None =>
               /\ get_cf_id(cfs_metadata', n) = get_cf_id(cfs_metadata, n)
               /\ ((LifetimeStep("create") \/ LifetimeStep("recover"))
                   /\ cfs_entry'.cf_name = n
                   /\ cfs_entry'.cf_id # get_cf_id(cfs_metadata, n)) =>
                      cfs_ret'.error = "ParsingError"]_vars

\* C9: right after a Create line for <name> with <id> (one that does not
\* contradict an id bound before) the registry contains <name>, and
\* get_cf_id(<name>) is <id>.
C9_CreateLineBindsTheId ==
    [][(/\ LifetimeStep("create")
        /\ get_cf_id(cfs_metadata, cfs_entry'.cf_name)
               \in {None, cfs_entry'.cf_id}) =>
           /\ cfs_entry'.cf_name \in DOMAIN cfs_metadata'.info
           /\ get_cf_id(cfs_metadata', cfs_entry'.cf_name) =
                  cfs_entry'.cf_id]_vars

\* The registered column families with this id.
CfsWithId(cfs, cf_id) == {n \in DOMAIN cfs.info : cfs.info[n].id = cf_id}

\* C10: a Drop line with id i sets the drop time of the registered column
\* family with id i to the time of the entry when it has none; when it has
\* one, a parsing error is raised and the drop time stays (no column family
\* gets a drop time twice); when no registered column family has id i, the
\* registry does not change.  In all cases the line is consumed: the result
\* is True and the next index is the one after the entry.
C10_DropLineSetsTheDropTimeOnce ==
    [][LifetimeStep("drop") =>
           LET holders == CfsWithId(cfs_metadata, cfs_entry'.cf_id)
           IN  /\ cfs_ret'.result = "True"
               /\ cfs_ret'.next_entry_idx = cfs_ret'.entry_idx + 1
               /\ holders = {} =>
                      /\ cfs_metadata' = cfs_metadata
                      /\ cfs_ret'.error = "none"
               /\ \A n \in holders :
                      IF cfs_metadata.info[n].drop_time = None
                      THEN /\ cfs_metadata' =
                                  [cfs_metadata EXCEPT
                                      !.info[n].drop_time = cfs_entry'.time]
                           /\ cfs_ret'.error = "none"
                           /\ n \notin cfs_dropped
                      ELSE /\ cfs_metadata' = cfs_metadata
                           /\ cfs_ret'.error = "ParsingError"]_vars

\* A Drop line for a column family that an earlier Drop line dropped: the
\* line is consumed with a parsing error and the first drop time stays.
C10_Witness ==
    /\ cfs_entry.kind = "drop"
    /\ cfs_ret.error = "ParsingError"
    /\ cfs_ret.result = "True"
    /\ \E n \in CfsWithId(cfs_metadata, cfs_entry.cf_id) :
           /\ n \in cfs_dropped
           /\ cfs_metadata.info[n].drop_time # None
           /\ cfs_metadata.info[n].drop_time < cfs_entry.time


\* The fields of a record that a Create or Recover line is not about.
OtherFields(cf_info) ==
    <<cf_info.discovery_time, cf_info.has_options, cf_info.auto_generated,
      cf_info.drop_time>>

CreateOrRecoverKeepsTheRecords ==
    (/\ LifetimeStep("create") \/ LifetimeStep("recover")
     /\ cfs_entry'.cf_name \in DOMAIN cfs_metadata.info) =>
        /\ DOMAIN cfs_metadata'.info = DOMAIN cfs_metadata.info
        /\ cfs_metadata'.order = cfs_metadata.order
        /\ \A n \in DOMAIN cfs_metadata.info :
               IF n = cfs_entry'.cf_name
               THEN OtherFields(cfs_metadata'.info[n]) =
                        OtherFields(cfs_metadata.info[n])
               ELSE cfs_metadata'.info[n] = cfs_metadata.info[n]

\* C29: a Create or Recover line for a registered column family changes
\* nothing in the registry but the id of that column family: its discovery
\* time, has_options, auto_generated and drop time, and the record of every
\* other column family, are after the line what they were before it.
C29_CreateOrRecoverChangesTheIdOnly ==
    [][CreateOrRecoverKeepsTheRecords]_vars
(***************************************************************************)
(* Claims about the naming of column families (SpecNames)                  *)
(***************************************************************************)

\* The blocks without a header, in the order of the log.
BlocksWithoutHeader ==
    SelectSeq(names_blocks, LAMBDA b : b.header = NoHeader)

\* The name and the flag that the k-th block without a header is to get.
ExpectedName(k) ==
    IF k = 1 THEN DEFAULT_CF_NAME ELSE <<"Unknown-CF-#", k - 1>>

\* C11: the k-th block of CF options without a header is registered as
\* 'default', not auto-generated, when k = 1 and as 'Unknown-CF-#(k-1)',
\* auto-generated, when k >= 2; blocks with a header consume no suffix, and
\* a generated name is never produced twice nor is it the name of a CF that
\* is registered already.
C11_BlocksWithoutHeaderAreNamedInSequence ==
    /\ \A k \in DOMAIN BlocksWithoutHeader :
           LET block == BlocksWithoutHeader[k]
           IN  /\ block.cf_name = ExpectedName(k)
               /\ block.is_auto_generated = (k >= 2)
               /\ block.raised = "none"
               /\ block.cf_name \in DOMAIN names_log.cfs_metadata.info
               /\ names_log.cfs_metadata.info[block.cf_name].auto_generated
                      = (k >= 2)
    /\ \A i, j \in DOMAIN names_blocks :
           i < j /\ names_blocks[j].header = NoHeader
               => names_blocks[i].cf_name # names_blocks[j].cf_name
    /\ names_log.next_unknown_cf_name_suffix =
           (IF BlocksWithoutHeader = <<>> THEN None
            ELSE Len(BlocksWithoutHeader))
(***************************************************************************)
(* Claims about several ParsedLog instances (SpecInstances)                *)
(***************************************************************************)

\* C15: every ParsedLog has sub-managers of its own: the CF names that the
\* events manager of a ParsedLog knows are those that this ParsedLog has
\* registered, and what its calls return is what they return when no other
\* ParsedLog exists.
C15_ParsedLogsShareNoState ==
    \A i \in LogIds :
        parsed_logs[i].constructed =>
            /\ default_cf_names = parsed_logs[i].own_cf_names
            /\ parsed_logs[i].ret = parsed_logs[i].own_ret
(***************************************************************************)
(* Claims about the baseline catalogue (SpecBaseline)                      *)
(***************************************************************************)

\* version <= other in the order of the versions.
Version_le(version, other) == ~Version_lt(other, version)

\* A call was made on a folder that is not empty.
BaselineCalled == baseline_call # NoBaselineCall /\ baseline_folder # <<>>

\* C16: for a catalogue that is not empty, find_closest_version_idx returns
\* the index of the greatest catalogued version that is at most the target
\* (major, then minor, then patch, no patch counting as -1), and None
\* exactly when every catalogued version is greater than the target; the
\* index is the position of that version in the caller's list of files.
C16_ClosestVersionIsTheGreatestNotAboveTheTarget ==
    BaselineCalled =>
        LET target == baseline_call.target
            ret == baseline_call.ret
            catalogued == {baseline_folder[i].version :
                              i \in DOMAIN baseline_folder}
            not_above == {v \in catalogued : Version_le(v, target)}
        IN  /\ (ret.idx = None) <=> (not_above = {})
            /\ ret.idx # None =>
                   /\ ret.idx \in 0 .. Len(baseline_folder) - 1
                   /\ LET closest == ret.baseline_versions[ret.idx + 1]
                      IN  /\ closest \in not_above
                          /\ \A v \in not_above : Version_le(v, closest)
                          /\ Version_eq(
                                 ret.baseline_files[ret.idx + 1].version,
                                 closest)
                          /\ ret.version = closest
                          /\ \E i \in DOMAIN baseline_folder :
                                 /\ baseline_folder[i].file_name =
                                        ret.file_name
                                 /\ baseline_folder[i].version = closest

\* The folder holds three files that iterdir() gave out of order, two of
\* them of versions below the target and one above; the closest is neither
\* the first nor the last of the sorted list and is not the target.
C16_Witness ==
    /\ BaselineCalled
    /\ Len(baseline_folder) = 3
    /\ Version_lt(baseline_folder[3].version, baseline_folder[1].version)
    /\ baseline_call.ret.idx = 1
    /\ baseline_call.ret.version # baseline_call.target
    /\ baseline_call.ret.version.patch = None
    /\ baseline_call.target.patch # None

(***************************************************************************)
(* Claims about the filter statistics (SpecFilter)                         *)
(***************************************************************************)

\* The last values of the three filter counters of the manager.
LastFilterValue(field) ==
    get_last_counter_value(filter_mngr, filter_counters_names[field])

\* calc_filter_stats was called with counters available and the last value
\* of positives not below that of true positives.
FilterStatsCalledOnOrderedCounters ==
    /\ filter_call.ret.kind # "not called"
    /\ does_have_values(filter_mngr)
    /\ LastFilterValue("positives") >= LastFilterValue("true_positives")

\* C23: whenever counters are available and the last value of positives is
\* at least the last value of true positives, calc_filter_stats returns
\* filter counters with false_positives = positives - true_positives and
\* one_in_n_fpr = (negatives + positives) / false_positives by integer
\* division, for every such combination of counter values.
C23_FilterStatsGiveOneInNFalsePositiveRate ==
    FilterStatsCalledOnOrderedCounters =>
        /\ filter_call.ret.kind = "returned"
        /\ filter_call.ret.available
        /\ LET c == filter_call.ret.filter_counters
           IN  /\ c.negatives = LastFilterValue("negatives")
               /\ c.positives = LastFilterValue("positives")
               /\ c.true_positives = LastFilterValue("true_positives")
               /\ c.false_positives = c.positives - c.true_positives
               /\ c.false_positives > 0
               /\ c.one_in_n_fpr =
                      (c.negatives + c.positives) \div c.false_positives

(***************************************************************************)
(* Claims about the flush statistics (SpecFlushes)                         *)
(***************************************************************************)

\* The flushes (indices of flush_events) with a given reason.
FlushesWithReason(reason) ==
    {i \in DOMAIN flush_events : flush_events[i].flush_reason = reason}

FlushReasonsSeen ==
    {flush_events[i].flush_reason : i \in DOMAIN flush_events}

\* The number of boundaries that are less than or equal to a size in MB.
BoundariesNotAbove(size_bytes) ==
    Cardinality({j \in DOMAIN FLUSHED_SIZES_HISTOGRAM_BUCKETS_MB :
                    FLUSHED_SIZES_HISTOGRAM_BUCKETS_MB[j] * 2^20
                        <= size_bytes})

RECURSIVE SumOfSeq(_)
SumOfSeq(s) == IF s = <<>> THEN 0 ELSE Head(s) + SumOfSeq(Tail(s))

\* C24: every flush of the CF is counted in exactly one of the 5 size
\* buckets of its flush reason, the one whose index is the number of
\* boundaries in [2, 10, 32, 64] that are less than or equal to the flushed
\* size in MB (1 MB in bucket 0, 2 MB and 9 MB in bucket 1, 64 MB and
\* 64.1 MB in bucket 4), and the bucket counts of a reason sum to its number
\* of flushes.
C24_FlushIsCountedInTheBucketOfItsSize ==
    flush_call.called =>
        /\ DOMAIN flush_call.stats = FlushReasonsSeen
        /\ \A reason \in FlushReasonsSeen :
               LET rs == flush_call.stats[reason]
               IN  /\ Len(rs.sizes_histogram) = 5
                   /\ \A k \in 0 .. 4 :
                          rs.sizes_histogram[k + 1] =
                              Cardinality(
                                  {i \in FlushesWithReason(reason) :
                                      BoundariesNotAbove(
                                          flush_events[i]
                                              .total_data_size_bytes) = k})
                   /\ rs.num_flushes = Cardinality(FlushesWithReason(reason))
                   /\ SumOfSeq(rs.sizes_histogram) = rs.num_flushes

\* Two flushes of one reason, of 2 MB and of 64.1 MB, are counted in the
\* buckets 1 and 4.
C24_Witness ==
    /\ flush_call.called
    /\ Len(flush_events) = 2
    /\ flush_events[1].flush_reason = "Manual Flush"
    /\ flush_events[2].flush_reason = "Manual Flush"
    /\ flush_events[1].total_data_size_bytes = 2 * 2^20
    /\ flush_events[2].total_data_size_bytes = 67213722
    /\ flush_call.stats["Manual Flush"].sizes_histogram = <<0, 1, 0, 0, 1>>

\* The duration of a flush: 0 when it has no flush-finished event.
DurationOf(i) ==
    IF flush_events[i].end_time = None THEN 0
    ELSE flush_events[i].end_time - flush_events[i].start_time

\* C25: for each flush reason of the CF, calc_cf_flushes_stats reports the
\* minimum and the maximum, over all flushes with that reason, of the
\* duration, of the number of memtables and of the total data size.
C25_FlushStatsHoldTheMinimaAndMaxima ==
    flush_call.called =>
        \A reason \in FlushReasonsSeen :
            LET rs == flush_call.stats[reason]
                F == FlushesWithReason(reason)
            IN  /\ rs.min_duration_ms = SetMin({DurationOf(i) : i \in F})
                /\ rs.max_duration_ms = SetMax({DurationOf(i) : i \in F})
                /\ rs.min_num_memtables =
                       SetMin({flush_events[i].num_memtables : i \in F})
                /\ rs.max_num_memtables =
                       SetMax({flush_events[i].num_memtables : i \in F})
                /\ rs.min_total_data_size_bytes =
                       SetMin({flush_events[i].total_data_size_bytes :
                                  i \in F})
                /\ rs.max_total_data_size_bytes =
                       SetMax({flush_events[i].total_data_size_bytes :
                                  i \in F})

(***************************************************************************)
(* Claims about the DB size (SpecDbSize)                                   *)
(***************************************************************************)

\* The sum over the CFs of a snapshot of the size of their Sum row.
SumRowsOf(snapshot) ==
    LET cfs == DOMAIN snapshot
        S[C \in SUBSET cfs] ==
            IF C = {} THEN 0
            ELSE LET c == CHOOSE x \in C : TRUE
                 IN  snapshot[c].SUM.size_bytes + S[C \ {c}]
    IN  S[cfs]

\* The snapshots of the manager, in the order of their times.
SnapshotAt(k) ==
    compaction_mngr.level_entries.info[compaction_mngr.level_entries.order[k]]

\* C26: get_db_size_bytes_at_start returns the sum over the CFs of the size
\* of the Sum row in the first snapshot of level entries, and
\* get_db_size_bytes_at_end the same sum over the last snapshot; each
\* returns 0 when there is no snapshot.
C26_DbSizeIsTheSumOfTheSumRows ==
    db_size_call.count = compaction_call.count =>
        LET n == Len(compaction_mngr.level_entries.order)
        IN  IF n = 0
            THEN db_size_call.at_start = 0 /\ db_size_call.at_end = 0
            ELSE /\ db_size_call.at_start = SumRowsOf(SnapshotAt(1))
                 /\ db_size_call.at_end = SumRowsOf(SnapshotAt(n))

(***************************************************************************)
(* Claims about the output folder (SpecFolder)                             *)
(***************************************************************************)

\* The four-digit suffixes of the names that follow the convention.
SuffixesOf(names) ==
    {int(n.rest) : n \in {f \in names :
                            /\ f.prefix = "log_parser_"
                            /\ Len(f.rest) = 4
                            /\ \A i \in 1 .. 4 : f.rest[i] \in 0 .. 9}}

\* The NNNN of the claim for a parent folder with the given names.
NextSuffix(names) ==
    IF SuffixesOf(names) = {} THEN 1
    ELSE IF SetMax(SuffixesOf(names)) = 9999 THEN 1
    ELSE SetMax(SuffixesOf(names)) + 1

PrepareOutputFolderAllocatesNextSuffix ==
    folder_call'.count = folder_call.count + 1 =>
        LET out == folder_call'.output_folder
        IN  /\ out.prefix = "log_parser_"
            /\ Len(out.rest) = 4
            /\ \A i \in 1 .. 4 : out.rest[i] \in 0 .. 9
            /\ int(out.rest) = NextSuffix(folder_names)
            /\ int(out.rest) \in 1 .. 9999

\* C27: prepare_output_folder allocates the subfolder log_parser_NNNN where
\* NNNN is one more than the largest four-digit suffix among the existing
\* names that follow the convention (0001 when there are none), and wraps
\* back to 0001 when 9999 already exists; NNNN is within 0001 .. 9999.
C27_OutputFolderTakesTheNextSuffix ==
    [][PrepareOutputFolderAllocatesNextSuffix]_vars

(***************************************************************************)
(* Claims about the scan of a DB stats entry (SpecDbStats)                 *)
(***************************************************************************)

\* The section that a line opens when it is met in a section of the given
\* type; NoStatsType for a line that is no section header there.
SectionOpenedBy(line, in_stats_type) ==
    CASE line.kind = "compaction" -> "COMPACTION"
      [] line.kind = "blob" -> "BLOB"
      [] line.kind = "block_cache" -> "BLOCK_CACHE"
      [] line.kind = "cf_file_histogram" -> "CF_FILE_HISTOGRAM"
      [] line.kind = "uptime" ->
             IF in_stats_type = "DB_WIDE" THEN NoStatsType ELSE "CF_NO_FILE"
      [] OTHER -> NoStatsType

\* The segments dispatched so far are consecutive, start at line 0 and end
\* at the scan position.
SegmentsAreConsecutive ==
    /\ \A k \in DOMAIN dbs_trace :
           /\ dbs_trace[k].start_line_idx < dbs_trace[k].end_line_idx
           /\ dbs_trace[k].start_line_idx =
                  IF k = 1 THEN 0 ELSE dbs_trace[k - 1].end_line_idx
    /\ dbs_scan.line_idx =
           IF dbs_trace = <<>> THEN 0
           ELSE dbs_trace[Len(dbs_trace)].end_line_idx
    /\ dbs_scan.line_idx <= Len(dbs_lines)

\* Every segment starts at the header of its type and holds no other
\* recognized header.
SegmentsStartAtTheirHeader ==
    \A k \in DOMAIN dbs_trace :
        LET seg == dbs_trace[k]
        IN  /\ IF k = 1
               THEN /\ seg.stats_type = "DB_WIDE"
                    /\ dbs_lines[1].kind = "db_stats"
               ELSE /\ seg.stats_type # NoStatsType
                    /\ seg.stats_type =
                           SectionOpenedBy(dbs_lines[seg.start_line_idx + 1],
                                           dbs_trace[k - 1].stats_type)
            /\ \A i \in seg.start_line_idx + 1 .. seg.end_line_idx - 1 :
                   SectionOpenedBy(dbs_lines[i + 1], seg.stats_type) =
                       NoStatsType

\* The loop neither fails its progress assertion nor stops before the end:
\* while it runs a line is left, and it has returned only with every line
\* in a segment.
ScanGoesToTheEnd ==
    /\ dbs_scan.status # "AssertionError: parsing must progress"
    /\ dbs_scan.status = "in loop" => dbs_scan.line_idx < Len(dbs_lines)
    /\ dbs_scan.status = "returned" => dbs_scan.line_idx = Len(dbs_lines)

\* An iteration moves the scan position forward.
IterationAdvances ==
    dbs_scan.status = "in loop" /\ dbs_scan' # dbs_scan =>
        dbs_scan'.line_idx > dbs_scan.line_idx

\* C28: within one DB stats entry, try_adding_entries splits the lines into
\* consecutive segments that do not overlap and together cover every line
\* once; the first segment starts at the DB-wide header, every later one at
\* a recognized section header, each is dispatched to the sub-manager of
\* the header that opens it, and the scan position strictly increases in
\* every iteration, so that the progress assertion never fails and the scan
\* ends after at most as many iterations as there are lines.
C28_DbStatsLinesAreSplitAtTheirHeaders ==
    /\ [](SegmentsAreConsecutive /\ SegmentsStartAtTheirHeader
          /\ ScanGoesToTheEnd)
    /\ [][IterationAdvances]_vars

\* An entry of four lines was split into a DB-wide segment of two lines (the
\* uptime line in it opens nothing), a compaction one and a CF one.
C28_Witness ==
    /\ dbs_scan.status = "returned"
    /\ Len(dbs_lines) = 4
    /\ dbs_lines[2].kind = "uptime"
    /\ dbs_lines[4].kind = "uptime"
    /\ Len(dbs_trace) = 3
    /\ dbs_trace[1].stats_type = "DB_WIDE"
    /\ dbs_trace[1].end_line_idx = 2
    /\ dbs_trace[2].stats_type = "COMPACTION"
    /\ dbs_trace[3].stats_type = "CF_NO_FILE"
    /\ dbs_trace[3].end_line_idx = 4
====
